---- MODULE Spec2Model ----
(***************************************************************************)
(* mail-parser-reply: splitting a plain-text mail body into its chain of   *)
(* replies (headers, signatures, disclaimers, body).                       *)
(*                                                                         *)
(* Strings are sequences of one-character strings.  A character outside    *)
(* ASCII is written "uXXXX" (its code point).  Regular expressions are     *)
(* syntax trees interpreted by a backtracking matcher with the semantics   *)
(* of Python's re module (leftmost match, alternatives in order, greedy    *)
(* and lazy repetition, MULTILINE anchors, IGNORECASE).                    *)
(***************************************************************************)
EXTENDS Integers, Sequences, FiniteSets, TLC

VARIABLES
    config,              \* the constructor arguments the caller uses: a list of [languages, default_language]
    mail,                \* the mail body the caller hands to read
    parser,              \* the EmailReplyParser: [languages, default_language], or NoParser
    message,             \* the EmailMessage of the parser's last read, or NoMessage
    reads,               \* number of read() calls made on that message
    header_cache,        \* lru_cache of get_header_regex: entries, least recently used first
    signature_cache,     \* lru_cache of get_signature_regex
    disclaimers_cache,   \* lru_cache of get_disclaimers_regex
    misses,              \* cache_info().misses of the three caches
    call,                \* the last direct call of _get_language_regex_patterns, or NoCall
    threads              \* the parse calls running in parallel: thread -> its position and locals

vars == <<config, mail, parser, message, reads, header_cache, signature_cache, disclaimers_cache,
         misses, call, threads>>

-----------------------------------------------------------------------------
(* Characters and Python's str operations                                  *)

LowerSeq == <<"a", "b", "c", "d", "e", "f", "g", "h", "i", "j", "k", "l", "m",
              "n", "o", "p", "q", "r", "s", "t", "u", "v", "w", "x", "y", "z">>
UpperSeq == <<"A", "B", "C", "D", "E", "F", "G", "H", "I", "J", "K", "L", "M",
              "N", "O", "P", "Q", "R", "S", "T", "U", "V", "W", "X", "Y", "Z">>
LowerAZ == {LowerSeq[i] : i \in 1..26}
UpperAZ == {UpperSeq[i] : i \in 1..26}
Digits09 == {"0", "1", "2", "3", "4", "5", "6", "7", "8", "9"}

\* the characters of the range À-ſ that the patterns mention
LatinExt == {"u00c0", "u00c4", "u00df", "u00e1", "u00e4", "u00e5", "u00e9", "u00ed", "u00f3", "u00f6",
             "u00fa", "u00fc", "u0119", "u011b", "u0142", "u0159", "u015b", "u016f", "u017c"}

\* \s and str.isspace(): space, tab, newline, carriage return, form feed, no-break space
SpaceChars == {" ", "\t", "\n", "\r", "\f", "u00a0"}

\* the CJK and Hangul letters the patterns mention
CJKWord == {"u4e3b", "u4eba", "u4ece", "u4ef6", "u4fe1", "u514d", "u5173", "u5199", "u53d1", "u58f0",
            "u597d", "u5e74", "u606f", "u60a8", "u610f", "u6211", "u6284", "u6536", "u656c", "u65e5",
            "u65f6", "u660e", "u6708", "u6b64", "u6ce8", "u7684", "u793c", "u795d", "u7ec4", "u7ec7",
            "u81f4", "u8981", "u8c22", "u8d23", "u9001", "u9053", "u91cd", "u95f4", "u9898", "uac10",
            "uace0", "ub0a0", "ub0b4", "ub0b8", "ub0c4", "ub144", "ub294", "ub2c8", "ub2d8", "ub2e4",
            "ub418", "ub78c", "ub8e8", "ub9d9", "uba74", "ubaa9", "ubc00", "ubc1b", "ubcf4", "ubd80",
            "ube44", "uc0ac", "uc11c", "uc131", "uc138", "uc2b5", "uc548", "uc5d0", "uc600", "uc694",
            "uc6d4", "uc740", "uc758", "uc774", "uc77c", "uc791", "uc804", "uc815", "uc81c", "uc870",
            "uc88b", "uc8fc", "uc9dc", "ucc38", "ucc45", "ud558", "ud569", "ud56d"}

\* \w: letters, digits and the underscore
WordChars == LowerAZ \cup UpperAZ \cup Digits09 \cup {"_"} \cup LatinExt \cup CJKWord

\* str.lower() of one character (ASCII letters; the other characters of the model have no case)
\* a sequence given as a function, as the tuple of its elements
Strict(s) == s \o <<>>

LowerOf == [c \in UpperAZ |-> LowerSeq[CHOOSE i \in 1..26 : UpperSeq[i] = c]]
ToLower(c) == IF c \in UpperAZ THEN LowerOf[c] ELSE c

\* str.lower()
Lower(s) == Strict([i \in 1..Len(s) |-> ToLower(s[i])])

\* s[i:j] of Python with 1-based i and exclusive j: the characters i .. j-1
Slice(s, i, j) == SubSeq(s, i, j - 1)

Min(S) == CHOOSE x \in S : \A y \in S : x <= y
Max(S) == CHOOSE x \in S : \A y \in S : y <= x

\* str.strip(): whitespace removed at both ends
Strip(s) ==
    LET kept == {i \in 1..Len(s) : s[i] \notin SpaceChars}
    IN  IF kept = {} THEN <<>> ELSE SubSeq(s, Min(kept), Max(kept))

\* does old occur in s at position i
StartsAt(s, old, i) == i + Len(old) - 1 <= Len(s) /\ SubSeq(s, i, i + Len(old) - 1) = old

\* str.replace(old, new): every non-overlapping occurrence, left to right
RECURSIVE ReplaceFrom(_, _, _, _)
ReplaceFrom(s, old, new, i) ==
    LET found == {p \in i..Len(s) : StartsAt(s, old, p)}
    IN  IF found = {} THEN Slice(s, i, Len(s) + 1)
        ELSE Slice(s, i, Min(found)) \o new \o ReplaceFrom(s, old, new, Min(found) + Len(old))
\* old = '': new is put before every character and at the end
Interleave(s, new) ==
    IF new = <<>> THEN s
    ELSE Strict([j \in 1..(Len(s) * (Len(new) + 1) + Len(new)) |->
            IF (j - 1) % (Len(new) + 1) = Len(new) THEN s[((j - 1) \div (Len(new) + 1)) + 1]
            ELSE new[((j - 1) % (Len(new) + 1)) + 1]])
Replace(s, old, new) == IF old = <<>> THEN Interleave(s, new) ELSE ReplaceFrom(s, old, new, 1)

\* str.split('\n'): the k-th line lies between the (k-1)-th and the k-th newline
SplitLines(s) ==
    LET breaks == {i \in 1..Len(s) : s[i] = "\n"}
        Break(k) == IF k = 0 THEN 0
                    ELSE IF k > Cardinality(breaks) THEN Len(s) + 1
                    ELSE CHOOSE i \in breaks : Cardinality({j \in breaks : j <= i}) = k
    IN  Strict([k \in 1..(Cardinality(breaks) + 1) |-> Slice(s, Break(k - 1) + 1, Break(k))])

\* '\n'.join(lines)
RECURSIVE JoinLines(_)
JoinLines(lines) ==
    IF lines = <<>> THEN <<>>
    ELSE IF Len(lines) = 1 THEN lines[1]
    ELSE lines[1] \o <<"\n">> \o JoinLines(Tail(lines))

\* the order of Python's str comparison (code points) on the characters identifiers are made of
CharOrder == <<" ">> \o UpperSeq \o LowerSeq
Ord(c) == CHOOSE i \in 1..Len(CharOrder) : CharOrder[i] = c
RECURSIVE StrLess(_, _)
StrLess(a, b) ==
    IF b = <<>> THEN FALSE
    ELSE IF a = <<>> THEN TRUE
    ELSE IF Head(a) = Head(b) THEN StrLess(Tail(a), Tail(b))
    ELSE Ord(Head(a)) < Ord(Head(b))

\* sorted(list): insertion into an already sorted list
RECURSIVE InsertSorted(_, _)
InsertSorted(x, s) ==
    IF s = <<>> THEN <<x>>
    ELSE IF StrLess(x, Head(s)) THEN <<x>> \o s
    ELSE <<Head(s)>> \o InsertSorted(x, Tail(s))
\* the list in the order it has
Unsorted(s) == s

RECURSIVE Sorted(_)
Sorted(s) == IF s = <<>> THEN <<>> ELSE InsertSorted(s[Len(s)], Sorted(SubSeq(s, 1, Len(s) - 1)))

-----------------------------------------------------------------------------
(* Regular expressions: syntax trees                                       *)

Inf == -1                                            \* no upper limit of a repetition
Empty == [t |-> "cat", rs |-> <<>>]                  \* the empty pattern ''
Lit(s) == [t |-> "lit", s |-> Lower(s)]              \* a literal string
In(s) == [t |-> "in", s |-> {ToLower(c) : c \in s}, neg |-> FALSE]    \* [...]
NotIn(s) == [t |-> "in", s |-> {ToLower(c) : c \in s}, neg |-> TRUE]  \* [^...]
Dot == [t |-> "dot"]                                 \* . (any character but newline)
Bol == [t |-> "bol"]                                 \* ^ with MULTILINE
Eol == [t |-> "eol"]                                 \* $ with MULTILINE
Bos == [t |-> "bos"]                                 \* \A
Cat(rs) == [t |-> "cat", rs |-> rs]                  \* r1 r2 ...
Alt(rs) == [t |-> "alt", rs |-> rs]                  \* r1|r2|...
Rep(r, lo, hi) == [t |-> "rep", r |-> r, lo |-> lo, hi |-> hi, greedy |-> TRUE]    \* r{lo,hi}
Lazy(r, lo, hi) == [t |-> "rep", r |-> r, lo |-> lo, hi |-> hi, greedy |-> FALSE]  \* r{lo,hi}?
Nla(r) == [t |-> "nla", r |-> r]                     \* (?!r)
Nlb(r) == [t |-> "nlb", r |-> r]                     \* (?<!r), r is \A in every pattern

\* '|'.join(patterns)
JoinAlt(patterns) ==
    IF patterns = <<>> THEN Empty
    ELSE IF Len(patterns) = 1 THEN patterns[1]
    ELSE Alt(patterns)

-----------------------------------------------------------------------------
(* Regular expressions: the matcher                                        *)
(* The matcher of Python's re module tries the ways a pattern can match in *)
(* a fixed order (alternatives left to right, a greedy repetition longest  *)
(* first, a lazy one shortest first) and takes the first way that lets the *)
(* rest of the pattern match.  Here a pattern started at a position gives  *)
(* the list of the positions where it can end, in that order, each once.   *)

\* the literal s at position i of the text
LitAt(s, text, i) == i + Len(s) - 1 <= Len(text) /\ SubSeq(text, i, i + Len(s) - 1) = s

\* a pattern that matches exactly one character: a class, a dot, a one-character literal, or
\* an alternation of such
RECURSIVE IsCharNode(_)
IsCharNode(n) ==
    \/ n.t \in {"in", "dot"}
    \/ n.t = "lit" /\ Len(n.s) = 1
    \/ n.t = "alt" /\ \A j \in 1..Len(n.rs) : IsCharNode(n.rs[j])
RECURSIVE CharMatch(_, _)
CharMatch(n, c) ==
    CASE n.t = "in" -> (c \in n.s) # n.neg
      [] n.t = "dot" -> c # "\n"
      [] n.t = "lit" -> c = n.s[1]
      [] n.t = "alt" -> \E j \in 1..Len(n.rs) : CharMatch(n.rs[j], c)

\* how many characters from position i on match the one-character pattern n, at most hi
RunLength(n, text, i, hi) ==
    LET last == IF hi = Inf \/ i + hi - 1 > Len(text) THEN Len(text) ELSE i + hi - 1
    IN  Min({q \in i..last : ~CharMatch(n, text[q])} \cup {last + 1}) - i

\* the second components of a sequence of pairs
Seconds(pairs) == Strict([x \in 1..Len(pairs) |-> pairs[x][2]])

\* attempts is a set of <<rank, ends>>: the ends a way of matching gives, the ways ranked in
\* the order the matcher tries them.  The result lists every end once, where it comes first.
Flatten(attempts, text) ==
    LET width == Len(text) + 2
        items == UNION {{<<(a[1] * width) + j, a[2][j]>> : j \in 1..Len(a[2])} : a \in attempts}
        found == {t[2] : t \in items}
        first(e) == Min({t[1] : t \in {u \in items : u[2] = e}})
        ranked == Strict([e \in 1..(Len(text) + 1) |-> IF e \in found THEN <<first(e), e>> ELSE <<0, e>>])
    IN  IF items = {} THEN <<>>
        ELSE Seconds(SortSeq(SelectSeq(ranked, LAMBDA r : r[1] # 0), LAMBDA r, s : r[1] < s[1]))

\* EL(n, cur, text): the ends of the pattern n started at the positions of the list cur
RECURSIVE EL(_, _, _)
RECURSIVE CatEL(_, _, _, _, _)
RECURSIVE RepEL(_, _, _, _, _)

\* a repetition of a one-character pattern started at p
CharRepEL(n, p, text) ==
    LET run == RunLength(n.r, text, p, n.hi)
    IN  IF run < n.lo THEN <<>>
        ELSE IF n.greedy THEN Strict([j \in 1..(run - n.lo + 1) |-> p + run + 1 - j])
        ELSE Strict([j \in 1..(run - n.lo + 1) |-> p + n.lo + j - 1])

\* the patterns lo..hi of the sequence rs one after the other
CatEL(rs, lo, hi, cur, text) ==
    IF lo > hi THEN cur
    ELSE IF lo = hi THEN EL(rs[lo], cur, text)
    ELSE LET mid == (lo + hi) \div 2
             half == CatEL(rs, lo, mid, cur, text)
         IN  IF half = <<>> THEN <<>> ELSE CatEL(rs, mid + 1, hi, half, text)

\* a repetition of n.r that has made c iterations and stands at p; last is where the latest
\* optional iteration began.  An iteration is tried before the exit (greedy); once the
\* minimum is reached, no iteration follows one that consumed nothing.
RepEL(n, c, last, p, text) ==
    LET canTry == c < n.lo \/ ((n.hi = Inf \/ c < n.hi) /\ p # last)
        bodyEnds == IF canTry THEN EL(n.r, <<p>>, text) ELSE <<>>
        newLast == IF c < n.lo THEN last ELSE p
        more == {<<x, RepEL(n, c + 1, newLast, bodyEnds[x], text)>> : x \in 1..Len(bodyEnds)}
        exit == IF c >= n.lo
                THEN {<<IF n.greedy THEN Len(bodyEnds) + 1 ELSE 0, <<p>>>>}
                ELSE {}
    IN  IF bodyEnds = <<>> THEN (IF c >= n.lo THEN <<p>> ELSE <<>>)
        ELSE Flatten(more \cup exit, text)

EL(n, cur, text) ==
    IF cur = <<>> THEN <<>>
    ELSE IF Len(cur) > 1 /\ n.t \in {"alt", "rep"}
    THEN Flatten({<<x, EL(n, <<cur[x]>>, text)>> : x \in 1..Len(cur)}, text)
    ELSE CASE n.t = "lit" ->
                LET hit == SelectSeq(cur, LAMBDA q : LitAt(n.s, text, q))
                IN  Strict([x \in 1..Len(hit) |-> hit[x] + Len(n.s)])
           [] n.t \in {"in", "dot"} ->
                LET hit == SelectSeq(cur, LAMBDA q : q <= Len(text) /\ CharMatch(n, text[q]))
                IN  Strict([x \in 1..Len(hit) |-> hit[x] + 1])
           [] n.t = "bol" -> SelectSeq(cur, LAMBDA q : q = 1 \/ text[q - 1] = "\n")
           [] n.t = "eol" -> SelectSeq(cur, LAMBDA q : q = Len(text) + 1 \/ text[q] = "\n")
           [] n.t = "bos" -> SelectSeq(cur, LAMBDA q : q = 1)
           [] n.t = "nlb" -> SelectSeq(cur, LAMBDA q : q # 1)
           [] n.t = "nla" -> SelectSeq(cur, LAMBDA q : EL(n.r, <<q>>, text) = <<>>)
           [] n.t = "cat" -> CatEL(n.rs, 1, Len(n.rs), cur, text)
           [] n.t = "alt" ->
                Flatten({<<j, EL(n.rs[j], cur, text)>> : j \in 1..Len(n.rs)}, text)
           [] n.t = "rep" ->
                IF IsCharNode(n.r) THEN CharRepEL(n, cur[1], text)
                ELSE RepEL(n, 0, 0, cur[1], text)

\* the end the matcher takes: the first one; 0 if there is none
FirstEnd(ends) == IF ends = <<>> THEN 0 ELSE ends[1]

\* the end of the match of the pattern that starts at position i; 0 if there is none
MatchAt(regex, i, text) == FirstEnd(EL(regex, <<i>>, text))

\* a match is <<start, end>>: the characters start .. end-1; NoMatch when there is none
NoMatch == <<0, 0>>

\* Ends(regex, text)[i]: the position after the match that starts at position i, 0 if none
Ends(regex, text) == Strict([i \in 1..(Len(text) + 1) |-> MatchAt(regex, i, text)])

\* the first match at or after position i, given the ends of the matches at every position
FirstFrom(ends, i) ==
    LET starts == {p \in i..Len(ends) : ends[p] # 0}
    IN  IF starts = {} THEN NoMatch ELSE <<Min(starts), ends[Min(starts)]>>

\* Pattern.search(text) of a pattern compiled with IGNORECASE
Search(regex, text) == FirstFrom(Ends(regex, Lower(text)), 1)

\* the successive non-overlapping matches, in order
RECURSIVE MatchesFrom(_, _)
MatchesFrom(ends, i) ==
    LET m == FirstFrom(ends, i)
    IN  IF m = NoMatch THEN <<>>
        ELSE <<m>> \o MatchesFrom(ends, IF m[2] > m[1] THEN m[2] ELSE m[2] + 1)

\* Pattern.finditer(text) of a pattern compiled with IGNORECASE
FindIter(regex, text) == MatchesFrom(Ends(regex, Lower(text)), 1)

\* the texts of matches
Matched(text, ms) == Strict([j \in 1..Len(ms) |-> Slice(text, ms[j][1], ms[j][2])])

\* Pattern.findall(text) of a pattern without groups: the matched strings
FindAll(regex, text) == Matched(text, FindIter(regex, text))

-----------------------------------------------------------------------------
(* Bounds of the model                                                     *)

MaxLines == 3        \* lines of a mail
MaxReads == 2        \* read() calls on one message

-----------------------------------------------------------------------------
(* constants.py                                                            *)

\* MAIL_LANGUAGE_DEFAULT = 'en'
MAIL_LANGUAGE_DEFAULT == <<"e", "n">>

\* QUOTED_MATCH_INCLUDE = r'(?:> ?)*'
QUOTED_MATCH_INCLUDE ==
    Rep(Cat(<<Lit(<<">">>), Rep(Lit(<<" ">>), 0, 1)>>), 0, Inf)

\* OUTLOOK_MAIL_SEPARATOR = r'(\n{2,} ?[_-]{32,})'
OUTLOOK_MAIL_SEPARATOR ==
    Cat(<<Rep(Lit(<<"\n">>), 2, Inf), Rep(Lit(<<" ">>), 0, 1), Rep(In({"_", "-"}), 32, Inf)>>)

\* GENERIC_MAIL_SEPARATOR = r'^-{5,} ?Original Message ?-{5,}$'
GENERIC_MAIL_SEPARATOR ==
    Cat(<<Bol, Rep(Lit(<<"-">>), 5, Inf), Rep(Lit(<<" ">>), 0, 1),
      Lit(<<"O", "r", "i", "g", "i", "n", "a", "l", " ", "M", "e", "s", "s", "a", "g", "e">>),
      Rep(Lit(<<" ">>), 0, 1), Rep(Lit(<<"-">>), 5, Inf), Eol>>)

\* DEFAULT_SIGNATURE_REGEX = rf'\s*^{QUOTED_MATCH_INCLUDE}(?:[-_]{{2}}\n|- ?\w).*'
DEFAULT_SIGNATURE_REGEX ==
    Cat(<<Rep(In(SpaceChars), 0, Inf), Bol, QUOTED_MATCH_INCLUDE,
      Alt(<<Cat(<<Rep(In({"-", "_"}), 2, 2), Lit(<<"\n">>)>>),
            Cat(<<Lit(<<"-">>), Rep(Lit(<<" ">>), 0, 1), In(WordChars)>>)>>),
      Rep(Dot, 0, Inf)>>)

\* NOLIST_SIGNATURE_REGEX = rf'\s*^{QUOTED_MATCH_INCLUDE}(?:[-_]{{2}}\n).*'
NOLIST_SIGNATURE_REGEX ==
    Cat(<<Rep(In(SpaceChars), 0, Inf), Bol, QUOTED_MATCH_INCLUDE,
      Rep(In({"-", "_"}), 2, 2), Lit(<<"\n">>), Rep(Dot, 0, Inf)>>)

\* SINGLE_SPACE_VARIATIONS = r'[ \u200b\xA0\t]'
SINGLE_SPACE_VARIATIONS == In({" ", "u200b", "u00a0", "\t"})

\* OPTIONAL_LINEBREAK = rf'[,()]?{SINGLE_SPACE_VARIATIONS}{{0,3}}[\n\r]?{SINGLE_SPACE_VARIATIONS}{{0,3}}[,()]?'
OPTIONAL_LINEBREAK ==
    Cat(<<Rep(In({",", "(", ")"}), 0, 1), Rep(SINGLE_SPACE_VARIATIONS, 0, 3), Rep(In({"\n", "\r"}), 0, 1),
      Rep(SINGLE_SPACE_VARIATIONS, 0, 3), Rep(In({",", "(", ")"}), 0, 1)>>)

\* SENTENCE_START = rf'(?:[\n\r.!?]|^){SINGLE_SPACE_VARIATIONS}{{0,3}}'
SENTENCE_START ==
    Cat(<<Alt(<<In({"\n", "\r", ".", "!", "?"}), Bol>>), Rep(SINGLE_SPACE_VARIATIONS, 0, 3)>>)

\* MAIL_LANGUAGES['en']['wrote_header']
en_wrote_header ==
    [str |->
      Cat(<<Bol, Nla(Cat(<<Lit(<<"O", "n">>), Rep(In(SpaceChars \cup {"."}), 0, Inf), Lit(<<"O", "n">>),
        In(SpaceChars), Cat(<<Lazy(Dot, 1, Inf), Rep(In(SpaceChars), 0, 1), Lazy(Dot, 1, Inf)>>),
        In(SpaceChars), Lit(<<"w", "r", "o", "t", "e", ":">>)>>)), Cat(<<Rep(Cat(<<Lit(<<">">>),
        Rep(Lit(<<" ">>), 0, 1)>>), 0, Inf), Lit(<<"O", "n">>), In(SpaceChars), Lazy(Dot, 1, Inf),
        Rep(In(SpaceChars), 0, 1), Lazy(Dot, 1, Inf), Rep(In(SpaceChars), 0, 1), Lit(<<"w", "r", "o", "t",
        "e", ":">>)>>), Eol>>)]

\* MAIL_LANGUAGES['en']['from_header']
en_from_header ==
    [str |->
      Cat(<<Rep(Cat(<<Alt(<<Bol, Lit(<<"\n">>), Cat(<<Lit(<<"\n">>), Rep(Cat(<<Lit(<<">">>),
        Rep(Lit(<<" ">>), 0, 1)>>), 0, Inf)>>)>>), Rep(In({"*", " "}), 0, Inf), Alt(<<Lit(<<"F", "r", "o",
        "m">>), Lit(<<"S", "e", "n", "t">>), Lit(<<"T", "o">>), Lit(<<"S", "u", "b", "j", "e", "c", "t">>),
        Lit(<<"D", "a", "t", "e">>), Lit(<<"C", "c">>), Lit(<<"O", "r", "g", "a", "n", "i", "z", "a", "t",
        "i", "o", "n">>)>>), Lit(<<":">>), Rep(In({" ", "*"}), 0, Inf), Rep(In(SpaceChars), 0, 2), Rep(Dot,
        0, Inf)>>), 2, Inf), Rep(Cat(<<Lit(<<"\n">>), Rep(Dot, 0, Inf)>>), 0, 1)>>)]

\* MAIL_LANGUAGES['en']['disclaimers']
en_disclaimers ==
    [list |-> <<
      Lit(<<"C", "A", "U", "T", "I", "O", "N", ":">>),
      Lit(<<"D", "i", "s", "c", "l", "a", "i", "m", "e", "r", ":">>),
      Lit(<<"W", "a", "r", "n", "i", "n", "g", ":">>),
      Lit(<<"C", "o", "n", "f", "i", "d", "e", "n", "t", "i", "a", "l", ":">>),
      Lit(<<"C", "O", "N", "F", "I", "D", "E", "N", "T", "I", "A", "L", "I", "T", "Y", ":">>),
      Cat(<<Alt(<<Lit(<<"P", "r", "i", "v", "i", "l", "e", "g", "e", "d">>), Lit(<<"C", "o", "n", "f", "i",
        "d", "e", "n", "t", "i", "a", "l">>), Lit(<<"P", "r", "i", "v", "a", "t", "e">>), Lit(<<"S", "e",
        "n", "s", "i", "t", "i", "v", "e">>), Lit(<<"I", "m", "p", "o", "r", "t", "a", "n", "t">>)>>),
        Lit(<<" ">>), Alt(<<Lit(<<"N", "o", "t", "i", "c", "e">>), Lit(<<"N", "o", "t", "e">>), Lit(<<"I",
        "n", "f", "o", "r", "m", "a", "t", "i", "o", "n">>)>>), Lit(<<":">>)>>),
      Cat(<<Rep(In({"*", " "}), 0, Inf), Lit(<<"D", "i", "s", "c", "l", "a", "i", "m", "e", "r">>),
        Rep(In({"*", " "}), 0, Inf)>>)
    >>]

\* MAIL_LANGUAGES['en']['signatures']
en_signatures ==
    [list |-> <<
      Lit(<<"B", "e", "s", "t", " ", "r", "e", "g", "a", "r", "d", "s">>),
      Lit(<<"K", "i", "n", "d", " ", "R", "e", "g", "a", "r", "d", "s">>),
      Lit(<<"T", "h", "a", "n", "k", "s", ",">>),
      Lit(<<"T", "h", "a", "n", "k", " ", "y", "o", "u", ",">>),
      Lit(<<"B", "e", "s", "t", ",">>),
      Lit(<<"A", "l", "l", " ", "t", "h", "e", " ", "b", "e", "s", "t">>),
      Lit(<<"r", "e", "g", "a", "r", "d", "s", ",">>)
    >>]

\* a registry whose English sent_from has lost its first lead-in
en_sent_from_outlook ==
    [str |->
      Lit(<<"G", "e", "t", " ", "O", "u", "t", "l", "o", "o", "k", " ", "f", "o", "r">>)]

\* MAIL_LANGUAGES['en']['sent_from']
en_sent_from ==
    [str |->
      Alt(<<Lit(<<"S", "e", "n", "t", " ", "f", "r", "o", "m", " ", "m", "y">>), Lit(<<"G", "e", "t", " ",
        "O", "u", "t", "l", "o", "o", "k", " ", "f", "o", "r">>)>>)]

\* MAIL_LANGUAGES['de']['wrote_header']
de_wrote_header ==
    [str |->
      Cat(<<Bol, Nla(Cat(<<Lit(<<"A", "m">>), Rep(Dot, 0, Inf), Lit(<<"A", "m">>), In(SpaceChars), Lazy(Dot,
        1, Inf), Lit(<<"s", "c", "h", "r", "i", "e", "b">>), Rep(Dot, 0, Inf), Lit(<<":">>)>>)),
        Cat(<<Rep(Cat(<<Lit(<<">">>), Rep(Lit(<<" ">>), 0, 1)>>), 0, Inf), Lit(<<"A", "m">>), In(SpaceChars),
        Lazy(Dot, 1, Inf), Rep(In(SpaceChars), 0, 1), Lit(<<"s", "c", "h", "r", "i", "e", "b">>),
        In(SpaceChars), Lazy(Dot, 1, Inf), Rep(In(SpaceChars), 0, 1), Lazy(Dot, 1, Inf), Lit(<<":">>)>>),
        Eol>>)]

\* MAIL_LANGUAGES['de']['from_header']
de_from_header ==
    [str |->
      Cat(<<Rep(Cat(<<Alt(<<Bol, Lit(<<"\n">>), Cat(<<Lit(<<"\n">>), Rep(Cat(<<Lit(<<">">>),
        Rep(Lit(<<" ">>), 0, 1)>>), 0, Inf)>>)>>), Rep(In({"*", " "}), 0, Inf), Alt(<<Lit(<<"V", "o", "n">>),
        Lit(<<"G", "e", "s", "e", "n", "d", "e", "t">>), Lit(<<"A", "n">>), Lit(<<"B", "e", "t", "r", "e",
        "f", "f">>), Lit(<<"D", "a", "t", "u", "m">>), Lit(<<"C", "c">>), Lit(<<"O", "r", "g", "a", "n", "i",
        "s", "a", "t", "i", "o", "n">>)>>), Lit(<<":">>), Rep(In({" ", "*"}), 0, Inf), Rep(In(SpaceChars), 0,
        2), Rep(Dot, 0, Inf)>>), 2, Inf), Rep(Cat(<<Lit(<<"\n">>), Rep(Dot, 0, Inf)>>), 0, 1)>>)]

\* MAIL_LANGUAGES['de']['disclaimers']
de_disclaimers ==
    [list |-> <<
      Cat(<<Rep(Lit(<<"W", "i", "c", "h", "t", "i", "g", "e", "r", " ">>), 0, 1), Lit(<<"H", "i", "n", "w",
        "e", "i", "s", ":">>)>>),
      Lit(<<"A", "c", "h", "t", "u", "n", "g", ":">>)
    >>]

\* MAIL_LANGUAGES['de']['signatures']
de_signatures ==
    [list |-> <<
      Lit(<<"M", "i", "t", " ", "f", "r", "e", "u", "n", "d", "l", "i", "c", "h", "e", "n", " ", "G", "r",
        "u00fc", "u00df", "e", "n">>),
      Cat(<<Lit(<<"M", "i", "t", " ", "f", "r", "e", "u", "n", "d", "l", "i", "c", "h", "e", "n", " ", "G",
        "r", "u00fc", "u00df", "e", "n", " ", "/", " ">>), Alt(<<Lit(<<"B", "e", "s", "t">>), Lit(<<"K", "i",
        "n", "d">>)>>), Lit(<<" ", "r", "e", "g", "a", "r", "d", "s", ",">>)>>),
      Cat(<<Rep(Cat(<<Alt(<<Cat(<<Lit(<<"B", "e", "s", "t", "e">>), Rep(Lit(<<"n">>), 0, 1)>>), Lit(<<"L",
        "i", "e", "b", "e">>), Lit(<<"V", "i", "e", "l", "e">>)>>), Lit(<<" ">>)>>), 0, 1), Lit(<<"G",
        "r">>), Alt(<<Cat(<<Alt(<<Lit(<<"u00fc">>), Lit(<<"u", "e">>)>>), Alt(<<Lit(<<"u00df">>), Lit(<<"s",
        "s">>)>>), Rep(Lit(<<"e">>), 0, 1)>>), Lit(<<"u", "u00df">>), Lit(<<"u", "s", "s">>)>>)>>)
    >>]

\* MAIL_LANGUAGES['de']['sent_from']
de_sent_from ==
    [str |->
      Lit(<<"G", "e", "s", "e", "n", "d", "e", "t", " ", "v", "o", "n">>)]

\* MAIL_LANGUAGES['cs']['wrote_header']
cs_wrote_header ==
    [str |->
      Cat(<<Bol, Nla(Cat(<<Lit(<<"D", "n", "e">>), Rep(In(SpaceChars \cup {"."}), 0, Inf), Lit(<<"D", "n",
        "e">>), In(SpaceChars), Cat(<<Lazy(Dot, 1, Inf), Rep(In(SpaceChars), 0, 1), Lazy(Dot, 1, Inf)>>),
        In(SpaceChars), Lit(<<"n", "a", "p", "s", "a", "l", "(", "a", ")", ":">>)>>)),
        Cat(<<Rep(Cat(<<Lit(<<">">>), Rep(Lit(<<" ">>), 0, 1)>>), 0, Inf), Lit(<<"D", "n", "e">>),
        In(SpaceChars), Lazy(Dot, 1, Inf), Rep(In(SpaceChars), 0, 1), Lazy(Dot, 1, Inf), Rep(In(SpaceChars),
        0, 1), Lit(<<"n", "a", "p", "s", "a", "l", "(", "a", ")", ":">>)>>), Eol>>)]

\* MAIL_LANGUAGES['cs']['from_header']
cs_from_header ==
    [str |->
      Cat(<<Rep(Cat(<<Alt(<<Bol, Lit(<<"\n">>), Cat(<<Lit(<<"\n">>), Rep(Cat(<<Lit(<<">">>),
        Rep(Lit(<<" ">>), 0, 1)>>), 0, Inf)>>)>>), Rep(In({"*", " "}), 0, Inf), Alt(<<Lit(<<"O", "d">>),
        Lit(<<"O", "d", "e", "s", "l", "u00e1", "n", "o">>), Lit(<<"K", "o", "m", "u">>), Lit(<<"P", "u0159",
        "e", "d", "m", "u011b", "t">>), Lit(<<"D", "a", "t", "u", "m">>), Lit(<<"K", "o", "p", "i",
        "e">>)>>), Lit(<<":">>), Rep(In({" ", "*"}), 0, Inf), Rep(In(SpaceChars), 0, 2), Rep(Dot, 0, Inf)>>),
        2, Inf), Rep(Cat(<<Lit(<<"\n">>), Rep(Dot, 0, Inf)>>), 0, 1)>>)]

\* MAIL_LANGUAGES['cs']['disclaimers']
cs_disclaimers ==
    [list |-> <<
      Lit(<<"U", "p", "o", "z", "o", "r", "n", "u011b", "n", "u00ed", ":">>),
      Lit(<<"D", "u016f", "v", "u011b", "r", "n", "u00e9", ":">>),
      Lit(<<"V", "a", "r", "o", "v", "u00e1", "n", "u00ed", ":">>)
    >>]

\* MAIL_LANGUAGES['cs']['signatures']
cs_signatures ==
    [list |-> <<
      Lit(<<"S", " ", "p", "o", "z", "d", "r", "a", "v", "e", "m", ",">>),
      Lit(<<"S", " ", "u00fa", "c", "t", "o", "u", ",">>),
      Lit(<<"D", "u011b", "k", "u", "j", "i", ",">>),
      Lit(<<"D", "u011b", "k", "u", "j", "e", "m", "e", ",">>),
      Lit(<<"S", " ", "p", "u0159", "u00e1", "n", "u00ed", "m", " ", "h", "e", "z", "k", "u00e9", "h", "o",
        " ", "d", "n", "e", ",">>)
    >>]

\* MAIL_LANGUAGES['cs']['sent_from']
cs_sent_from ==
    [str |->
      Cat(<<Lit(<<"O", "d", "e", "s", "l", "u00e1", "n", "o", " ", "z", " ", "m", "u00e9", "h", "o">>),
        Rep(Dot, 0, Inf)>>)]

\* MAIL_LANGUAGES['es']['wrote_header']
es_wrote_header ==
    [str |->
      Cat(<<Bol, Nla(Cat(<<Lit(<<"E", "l">>), In(SpaceChars), Rep(Dot, 1, Inf), In(SpaceChars), Lit(<<" ",
        "e", "s", "c", "r", "i", "b", "i", "u00f3", ":">>)>>)), Cat(<<Rep(Cat(<<Lit(<<">">>),
        Rep(Lit(<<" ">>), 0, 1)>>), 0, Inf), Lit(<<"E", "l">>), In(SpaceChars), Rep(Dot, 1, Inf),
        In(SpaceChars), Lit(<<" ", "e", "s", "c", "r", "i", "b", "i", "u00f3", ":">>)>>), Eol>>)]

\* MAIL_LANGUAGES['es']['from_header']
es_from_header ==
    [str |->
      Cat(<<Rep(Cat(<<Alt(<<Bol, Lit(<<"\n">>), Cat(<<Lit(<<"\n">>), Rep(Cat(<<Lit(<<">">>),
        Rep(Lit(<<" ">>), 0, 1)>>), 0, Inf)>>)>>), Rep(In({"*", " "}), 0, Inf), Alt(<<Lit(<<"D", "e">>),
        Lit(<<"E", "n", "v", "i", "a", "d", "o">>), Lit(<<"P", "a", "r", "a">>), Lit(<<"A", "s", "u", "n",
        "t", "o">>), Lit(<<"F", "e", "c", "h", "a">>), Lit(<<"C", "C">>), Lit(<<"O", "r", "g", "a", "n", "i",
        "z", "a", "c", "i", "u00f3", "n">>)>>), Lit(<<":">>), Rep(In({" ", "*"}), 0, Inf),
        Rep(In(SpaceChars), 0, 2), Rep(Dot, 0, Inf)>>), 2, Inf), Rep(Cat(<<Lit(<<"\n">>), Rep(Dot, 0,
        Inf)>>), 0, 1)>>)]

\* MAIL_LANGUAGES['es']['disclaimers']
es_disclaimers ==
    [list |-> <<
      Lit(<<"A", "v", "i", "s", "o", ":">>),
      Lit(<<"C", "o", "n", "f", "i", "d", "e", "n", "c", "i", "a", "l", "i", "d", "a", "d", ":">>),
      Lit(<<"A", "d", "v", "e", "r", "t", "e", "n", "c", "i", "a", ":">>),
      Lit(<<"D", "e", "s", "c", "a", "r", "g", "o", " ", "d", "e", " ", "r", "e", "s", "p", "o", "n", "s",
        "a", "b", "i", "l", "i", "d", "a", "d", ":">>)
    >>]

\* MAIL_LANGUAGES['es']['signatures']
es_signatures ==
    [list |-> <<
      Lit(<<"S", "a", "l", "u", "d", "o", "s", ",">>),
      Lit(<<"A", "t", "e", "n", "t", "a", "m", "e", "n", "t", "e", ",">>),
      Lit(<<"G", "r", "a", "c", "i", "a", "s", ",">>),
      Lit(<<"U", "n", " ", "s", "a", "l", "u", "d", "o", ",">>),
      Lit(<<"C", "o", "r", "d", "i", "a", "l", "m", "e", "n", "t", "e", ",">>),
      Lit(<<"M", "u", "c", "h", "a", "s", " ", "g", "r", "a", "c", "i", "a", "s", ",">>)
    >>]

\* MAIL_LANGUAGES['es']['sent_from']
es_sent_from ==
    [str |->
      Cat(<<Lit(<<"E", "n", "v", "i", "a", "d", "o", " ", "d", "e", "s", "d", "e", " ", "m", "i">>), Rep(Dot,
        0, Inf)>>)]

\* MAIL_LANGUAGES['fr']['wrote_header']
fr_wrote_header ==
    [str |->
      Cat(<<Nla(Cat(<<Lit(<<"L", "e">>), Rep(Dot, 0, Inf), Lit(<<"L", "e">>), In(SpaceChars), Lazy(Dot, 1,
        Inf), Lit(<<"a", " ", "u00e9", "c", "r", "i", "t">>),
        Rep(In(LowerAZ \cup UpperAZ \cup Digits09 \cup {".", ":", ";", "<", ">", "(", ")", "&", "@", " ",
        "-"}), 0, Inf), Lit(<<":">>)>>)), Cat(<<Rep(Cat(<<Lit(<<">">>), Rep(Lit(<<" ">>), 0, 1)>>), 0, Inf),
        Lit(<<"L", "e">>), In(SpaceChars), Lazy(Dot, 1, Inf), Lit(<<"a", " ", "u00e9", "c", "r", "i", "t">>),
        Rep(In(LowerAZ \cup UpperAZ \cup Digits09 \cup {".", ":", ";", "<", ">", "(", ")", "&", "@", " ",
        "-"}), 0, Inf), Lit(<<":">>)>>)>>)]

\* MAIL_LANGUAGES['fr']['from_header']
fr_from_header ==
    [str |->
      Cat(<<Rep(Cat(<<Alt(<<Bol, Lit(<<"\n">>), Cat(<<Lit(<<"\n">>), Rep(Cat(<<Lit(<<">">>),
        Rep(Lit(<<" ">>), 0, 1)>>), 0, Inf)>>)>>), Rep(In({"*", " "}), 0, Inf), Alt(<<Lit(<<"D", "e", " ">>),
        Lit(<<"E", "n", "v", "o", "y", "u00e9", " ">>), Lit(<<"u00c0", " ">>), Lit(<<"O", "b", "j", "e", "t",
        " ">>), Lit(<<" ", " ">>), Lit(<<"C", "c", " ">>)>>), Lit(<<":">>), Rep(In({" ", "*"}), 0, Inf),
        Rep(In(SpaceChars), 0, 2), Rep(Dot, 0, Inf)>>), 2, Inf), Rep(Cat(<<Lit(<<"\n">>), Rep(Dot, 0,
        Inf)>>), 0, 1)>>)]

\* MAIL_LANGUAGES['fr']['signatures']
fr_signatures ==
    [list |-> <<
      Lit(<<"c", "o", "r", "d", "i", "a", "l", "e", "m", "e", "n", "t">>),
      Lit(<<"s", "a", "l", "u", "t", "a", "t", "i", "o", "n", "s">>),
      Cat(<<Lit(<<"b", "o", "n", "n", "e", " ", "r">>), In({"u00e9", "e"}), Lit(<<"c", "e", "p", "t", "i",
        "o", "n">>)>>),
      Cat(<<Lit(<<"b", "o", "n", "n", "e", " ", "j", "o", "u", "r", "n">>), In({"u00e9", "e"}),
        Lit(<<"e">>)>>)
    >>]

\* MAIL_LANGUAGES['fr']['sent_from']
fr_sent_from ==
    [str |->
      Lit(<<"E", "n", "v", "o", "y", "u00e9", " ", "d", "e", "p", "u", "i", "s">>)]

\* MAIL_LANGUAGES['it']['wrote_header']
it_wrote_header ==
    [str |->
      Cat(<<Bol, Nla(Cat(<<Lit(<<"I", "l">>), Rep(In(SpaceChars \cup {"."}), 0, Inf), Lit(<<"I", "l">>),
        In(SpaceChars), Cat(<<Lazy(Dot, 1, Inf), Rep(In(SpaceChars), 0, 1), Lazy(Dot, 1, Inf)>>),
        In(SpaceChars), Lit(<<"h", "a", " ", "s", "c", "r", "i", "t", "t", "o", ":">>)>>)),
        Cat(<<Rep(Cat(<<Lit(<<">">>), Rep(Lit(<<" ">>), 0, 1)>>), 0, Inf), Lit(<<"I", "l">>), In(SpaceChars),
        Lazy(Dot, 1, Inf), Rep(In(SpaceChars), 0, 1), Lazy(Dot, 1, Inf), Rep(In(SpaceChars), 0, 1),
        Lit(<<"h", "a", " ", "s", "c", "r", "i", "t", "t", "o", ":">>)>>), Eol>>)]

\* MAIL_LANGUAGES['it']['from_header']
it_from_header ==
    [str |->
      Cat(<<Rep(Cat(<<Alt(<<Bol, Lit(<<"\n">>), Cat(<<Lit(<<"\n">>), Rep(Cat(<<Lit(<<">">>),
        Rep(Lit(<<" ">>), 0, 1)>>), 0, Inf)>>)>>), Rep(In({"*", " "}), 0, Inf), Alt(<<Lit(<<"D", "a">>),
        Lit(<<"I", "n", "v", "i", "a", "t", "o">>), Lit(<<"A">>), Lit(<<"O", "g", "g", "e", "t", "t", "o">>),
        Lit(<<"D", "a", "t", "a">>), Lit(<<"C", "c">>)>>), Lit(<<":">>), Rep(In({" ", "*"}), 0, Inf),
        Rep(In(SpaceChars), 0, 2), Rep(Dot, 0, Inf)>>), 2, Inf), Rep(Cat(<<Lit(<<"\n">>), Rep(Dot, 0,
        Inf)>>), 0, 1)>>)]

\* MAIL_LANGUAGES['it']['signatures']
it_signatures ==
    [list |-> <<
      Lit(<<"C", "o", "r", "d", "i", "a", "l", "i", " ", "s", "a", "l", "u", "t", "i">>)
    >>]

\* MAIL_LANGUAGES['it']['sent_from']
it_sent_from ==
    [str |->
      Lit(<<"I", "n", "v", "i", "a", "t", "o", " ", "d", "a">>)]

\* MAIL_LANGUAGES['ja']['wrote_header']
ja_wrote_header ==
    [str |->
      Cat(<<Bol, Nla(Cat(<<Rep(Dot, 0, Inf), Rep(In(Digits09), 4, 4), Lit(<<"u5e74">>), Rep(In(Digits09), 1,
        2), Lit(<<"u6708">>), Rep(In(Digits09), 1, 2), Lit(<<"u65e5", "(">>), Dot, Lit(<<")", " ">>),
        Rep(In(Digits09), 1, 2), Lit(<<":">>), Rep(In(Digits09), 2, 2), Lazy(Dot, 1, Inf), Lit(<<" ", "<">>),
        Lazy(Dot, 1, Inf), Lit(<<">", ":">>), Rep(Dot, 0, Inf), Rep(In(Digits09), 4, 4), Lit(<<"u5e74">>),
        Rep(In(Digits09), 1, 2), Lit(<<"u6708">>), Rep(In(Digits09), 1, 2), Lit(<<"u65e5", "(">>), Dot,
        Lit(<<")", " ">>), Rep(In(Digits09), 1, 2), Lit(<<":">>), Rep(In(Digits09), 2, 2), Lazy(Dot, 1, Inf),
        Lit(<<" ", "<">>), Lazy(Dot, 1, Inf), Lit(<<">", ":">>)>>)), Cat(<<Rep(Cat(<<Lit(<<">">>),
        Rep(Lit(<<" ">>), 0, 1)>>), 0, Inf), Rep(In(Digits09), 4, 4), Lit(<<"u5e74">>), Rep(In(Digits09), 1,
        2), Lit(<<"u6708">>), Rep(In(Digits09), 1, 2), Lit(<<"u65e5", "(">>), Dot, Lit(<<")", " ">>),
        Rep(In(Digits09), 1, 2), Lit(<<":">>), Rep(In(Digits09), 2, 2), Lazy(Dot, 1, Inf), Lit(<<" ", "<">>),
        Lazy(Dot, 1, Inf), Lit(<<">">>)>>), Lit(<<":">>), Eol>>)]

\* MAIL_LANGUAGES['ja']['from_header']
ja_from_header ==
    [str |->
      Cat(<<Rep(Cat(<<Alt(<<Bol, Lit(<<"\n">>), Cat(<<Lit(<<"\n">>), Rep(Cat(<<Lit(<<">">>),
        Rep(Lit(<<" ">>), 0, 1)>>), 0, Inf)>>)>>), Rep(In({"*", " "}), 0, Inf), Alt(<<Lit(<<"F", "r", "o",
        "m">>), Lit(<<"S", "e", "n", "t">>), Lit(<<"T", "o">>), Lit(<<"S", "u", "b", "j", "e", "c", "t">>),
        Lit(<<"D", "a", "t", "e">>), Lit(<<"C", "c">>)>>), Lit(<<":">>), Rep(In({" ", "*"}), 0, Inf),
        Rep(In(SpaceChars), 0, 2), Rep(Dot, 0, Inf)>>), 2, Inf), Rep(Cat(<<Lit(<<"\n">>), Rep(Dot, 0,
        Inf)>>), 0, 1)>>)]

\* MAIL_LANGUAGES['ja']['disclaimers']
ja_disclaimers ==
    [list |-> <<>>]

\* MAIL_LANGUAGES['ja']['signatures']
ja_signatures ==
    [list |-> <<>>]

\* MAIL_LANGUAGES['ja']['sent_from']
ja_sent_from ==
    [str |->
      Empty]

\* MAIL_LANGUAGES['ko']['wrote_header']
ko_wrote_header ==
    [str |->
      Cat(<<Bol, Nla(Cat(<<Rep(Dot, 0, Inf), Rep(In(Digits09), 4, 4), Lit(<<"ub144", " ">>),
        Rep(In(Digits09), 1, 2), Lit(<<"uc6d4", " ">>), Rep(In(Digits09), 1, 2), Lit(<<"uc77c">>), Lazy(Dot,
        0, Inf), Lit(<<"ub2d8", "uc774", " ", "uc791", "uc131", "ud558", "uc600", "uc2b5", "ub2c8", "ub2e4",
        ":">>)>>)), Cat(<<Rep(Cat(<<Lit(<<">">>), Rep(Lit(<<" ">>), 0, 1)>>), 0, Inf), Rep(In(Digits09), 4,
        4), Lit(<<"ub144", " ">>), Rep(In(Digits09), 1, 2), Lit(<<"uc6d4", " ">>), Rep(In(Digits09), 1, 2),
        Lit(<<"uc77c", " ">>), Rep(Dot, 0, Inf), Lit(<<"ub2d8", "uc774", " ", "uc791", "uc131", "ud558",
        "uc600", "uc2b5", "ub2c8", "ub2e4", ":">>)>>), Eol>>)]

\* MAIL_LANGUAGES['ko']['from_header']
ko_from_header ==
    [str |->
      Cat(<<Rep(Cat(<<Alt(<<Bol, Lit(<<"\n">>), Cat(<<Lit(<<"\n">>), Rep(Cat(<<Lit(<<">">>),
        Rep(Lit(<<" ">>), 0, 1)>>), 0, Inf)>>)>>), Rep(In({"*", " "}), 0, Inf), Alt(<<Cat(<<Lit(<<"ubcf4",
        "ub0b8">>), Rep(In(SpaceChars), 0, 1), Lit(<<"uc0ac", "ub78c">>)>>), Cat(<<Lit(<<"ubcf4", "ub0b8">>),
        Rep(In(SpaceChars), 0, 1), Lit(<<"ub0a0", "uc9dc">>)>>), Cat(<<Lit(<<"ubc1b", "ub294">>),
        Rep(In(SpaceChars), 0, 1), Lit(<<"uc0ac", "ub78c">>)>>), Lit(<<"uc81c", "ubaa9">>), Lit(<<"ucc38",
        "uc870">>)>>), Lit(<<":">>), Rep(In({" ", "*"}), 0, Inf), Rep(In(SpaceChars), 0, 2), Rep(Dot, 0,
        Inf)>>), 2, Inf), Rep(Cat(<<Lit(<<"\n">>), Rep(Dot, 0, Inf)>>), 0, 1)>>)]

\* MAIL_LANGUAGES['ko']['disclaimers']
ko_disclaimers ==
    [list |-> <<
      Lit(<<"uc8fc", "uc758", ":">>),
      Lit(<<"uba74", "ucc45", " ", "uc870", "ud56d", ":">>),
      Lit(<<"ube44", "ubc00", "uc815", "ubcf4", ":">>)
    >>]

\* MAIL_LANGUAGES['ko']['signatures']
ko_signatures ==
    [list |-> <<
      Lit(<<"uac10", "uc0ac", "ud569", "ub2c8", "ub2e4", ",">>),
      Lit(<<"uc548", "ubd80", " ", "uc804", "ud569", "ub2c8", "ub2e4", ",">>),
      Lit(<<"uc88b", "uc740", " ", "ud558", "ub8e8", " ", "ub418", "uc138", "uc694", ",">>),
      Lit(<<"uace0", "ub9d9", "uc2b5", "ub2c8", "ub2e4", ",">>),
      Cat(<<Lit(<<"uac10", "uc0ac", "ud569", "ub2c8", "ub2e4">>), Dot>>)
    >>]

\* MAIL_LANGUAGES['ko']['sent_from']
ko_sent_from ==
    [str |->
      Cat(<<Lit(<<"ub0b4", " ">>), Rep(Dot, 0, Inf), Lit(<<"uc5d0", "uc11c", " ", "ubcf4", "ub0c4">>)>>)]

\* MAIL_LANGUAGES['nl']['wrote_header']
nl_wrote_header ==
    [str |->
      Cat(<<Bol, Nla(Cat(<<Lit(<<"O", "p">>), Rep(In(SpaceChars \cup {"."}), 0, Inf), Lit(<<"O", "p">>),
        In(SpaceChars), Cat(<<Lazy(Dot, 1, Inf), Rep(In(SpaceChars), 0, 1), Lazy(Dot, 1, Inf)>>),
        In(SpaceChars), Lit(<<"s", "c", "h", "r", "e", "e", "f", ":">>)>>)), Cat(<<Rep(Cat(<<Lit(<<">">>),
        Rep(Lit(<<" ">>), 0, 1)>>), 0, Inf), Lit(<<"O", "p">>), In(SpaceChars), Lazy(Dot, 1, Inf),
        Rep(In(SpaceChars), 0, 1), Lazy(Dot, 1, Inf), Rep(In(SpaceChars), 0, 1), Lit(<<"s", "c", "h", "r",
        "e", "e", "f", ":">>)>>), Eol>>)]

\* MAIL_LANGUAGES['nl']['from_header']
nl_from_header ==
    [str |->
      Cat(<<Rep(Cat(<<Alt(<<Bol, Lit(<<"\n">>), Cat(<<Lit(<<"\n">>), Rep(Cat(<<Lit(<<">">>),
        Rep(Lit(<<" ">>), 0, 1)>>), 0, Inf)>>)>>), Rep(In({"*", " "}), 0, Inf), Alt(<<Lit(<<"V", "a", "n">>),
        Lit(<<"V", "e", "r", "z", "o", "n", "d", "e", "n">>), Lit(<<"A", "a", "n">>), Lit(<<"O", "n", "d",
        "e", "r", "w", "e", "r", "p">>), Lit(<<"D", "a", "t", "u", "m">>), Lit(<<"C", "c">>)>>),
        Lit(<<":">>), Rep(In({" ", "*"}), 0, Inf), Rep(In(SpaceChars), 0, 2), Rep(Dot, 0, Inf)>>), 2, Inf),
        Rep(Cat(<<Lit(<<"\n">>), Rep(Dot, 0, Inf)>>), 0, 1)>>)]

\* MAIL_LANGUAGES['nl']['disclaimers']
nl_disclaimers ==
    [list |-> <<
      Lit(<<"D", "i", "s", "c", "l", "a", "i", "m", "e", "r", ":">>),
      Lit(<<"W", "a", "a", "r", "s", "c", "h", "u", "w", "i", "n", "g", ":">>)
    >>]

\* MAIL_LANGUAGES['nl']['signatures']
nl_signatures ==
    [list |-> <<
      Lit(<<"M", "e", "t", " ", "v", "r", "i", "e", "n", "d", "e", "l", "i", "j", "k", "e", " ", "g", "r",
        "o", "e", "t">>),
      Lit(<<"H", "a", "r", "t", "e", "l", "i", "j", "k", "e", " ", "g", "r", "o", "e", "t", "e", "n">>),
      Lit(<<"B", "e", "d", "a", "n", "k", "t", ",">>),
      Lit(<<"D", "a", "n", "k", " ", "u", ",">>)
    >>]

\* MAIL_LANGUAGES['nl']['sent_from']
nl_sent_from ==
    [str |->
      Lit(<<"V", "e", "r", "z", "o", "n", "d", "e", "n", " ", "v", "a", "n", "a", "f", " ", "m", "i", "j",
        "n">>)]

\* MAIL_LANGUAGES['pl']['wrote_header']
pl_wrote_header ==
    [str |->
      Cat(<<Bol, Nla(Cat(<<Lit(<<"D", "n", "i", "a">>), Rep(In(SpaceChars \cup {"."}), 0, Inf), Lit(<<"D",
        "n", "i", "a">>), In(SpaceChars), Cat(<<Lazy(Dot, 1, Inf), Rep(In(SpaceChars), 0, 1), Lazy(Dot, 1,
        Inf)>>), In(SpaceChars), Lit(<<"n", "a">>), Alt(<<Lit(<<"d", "e", "s", "u0142", "a", "u0142">>),
        Lit(<<"p", "i", "s", "a", "u0142", "(", "a", ")">>)>>), Lit(<<":">>)>>)),
        Cat(<<Rep(Cat(<<Lit(<<">">>), Rep(Lit(<<" ">>), 0, 1)>>), 0, Inf), Lit(<<"D", "n", "i", "a">>),
        In(SpaceChars), Lazy(Dot, 1, Inf), Rep(In(SpaceChars), 0, 1), Lazy(Dot, 1, Inf), Rep(In(SpaceChars),
        0, 1), Lit(<<"n", "a">>), Alt(<<Lit(<<"d", "e", "s", "u0142", "a", "u0142">>), Lit(<<"p", "i", "s",
        "a", "u0142", "(", "a", ")">>)>>), Lit(<<":">>)>>), Eol>>)]

\* MAIL_LANGUAGES['pl']['from_header']
pl_from_header ==
    [str |->
      Cat(<<Rep(Cat(<<Alt(<<Bol, Lit(<<"\n">>), Cat(<<Lit(<<"\n">>), Rep(Cat(<<Lit(<<">">>),
        Rep(Lit(<<" ">>), 0, 1)>>), 0, Inf)>>)>>), Rep(In({"*", " "}), 0, Inf), Alt(<<Lit(<<"O", "d">>),
        Lit(<<"W", "y", "s", "u0142", "a", "n", "o">>), Lit(<<"D", "o">>), Lit(<<"T", "e", "m", "a", "t">>),
        Lit(<<"D", "a", "t", "a">>), Lit(<<"D", "W">>)>>), Lit(<<":">>), Rep(In({" ", "*"}), 0, Inf),
        Rep(In(SpaceChars), 0, 2), Rep(Dot, 0, Inf)>>), 1, Inf), Rep(Cat(<<Lit(<<"\n">>), Rep(Dot, 0,
        Inf)>>), 0, 1)>>)]

\* MAIL_LANGUAGES['pl']['disclaimers']
pl_disclaimers ==
    [list |-> <<
      Lit(<<"U", "w", "a", "g", "a", ":">>)
    >>]

\* MAIL_LANGUAGES['pl']['signatures']
pl_signatures ==
    [list |-> <<
      Lit(<<"Z", " ", "p", "o", "w", "a", "u017c", "a", "n", "i", "e", "m">>),
      Lit(<<"Z", " ", "p", "o", "w", "a", "z", "a", "n", "i", "e", "m">>),
      Lit(<<"P", "o", "z", "d", "r", "a", "w", "i", "a", "m">>),
      Cat(<<Lit(<<"W", " ", "p", "r", "z", "y", "p", "a", "d", "k", "u", " ", "n", "i", "e", "j", "a", "s",
        "n", "o", "u015b", "c", "i", ",", " ", "p", "r", "o", "s", "z", "u0119", " ", "o", " ", "k", "o",
        "n", "t", "a", "k", "t">>), Dot>>)
    >>]

\* MAIL_LANGUAGES['pl']['sent_from']
pl_sent_from ==
    [str |->
      Lit(<<"W", "y", "s", "u0142", "a", "n", "o", " ", "z">>)]

\* MAIL_LANGUAGES['sv']['wrote_header']
sv_wrote_header ==
    [str |->
      Cat(<<Bol, Nla(Cat(<<Lit(<<"D", "e", "n">>), Rep(In(SpaceChars \cup {"."}), 0, Inf), Lit(<<"D", "e",
        "n">>), In(SpaceChars), Cat(<<Lazy(Dot, 1, Inf), Rep(In(SpaceChars), 0, 1), Lazy(Dot, 1, Inf)>>),
        In(SpaceChars), Lit(<<"k", "r", "e", "v", ":">>)>>)), Cat(<<Rep(Cat(<<Lit(<<">">>), Rep(Lit(<<" ">>),
        0, 1)>>), 0, Inf), Alt(<<Lit(<<"D", "e", "n">>), Cat(<<In({"M", "m"}), Lit(<<"u00e5", "n">>)>>),
        Cat(<<In({"T", "t"}), Lit(<<"i", "s">>)>>), Cat(<<In({"O", "o"}), Lit(<<"n", "s">>)>>),
        Cat(<<In({"T", "t"}), Lit(<<"o", "r">>)>>), Cat(<<In({"F", "f"}), Lit(<<"r", "e">>)>>),
        Cat(<<In({"L", "l"}), Lit(<<"u00f6", "r">>)>>), Cat(<<In({"S", "s"}), Lit(<<"u00f6", "n">>)>>),
        Cat(<<Rep(In(Digits09), 1, Inf), Rep(In(SpaceChars), 1, Inf), Alt(<<Lit(<<"j", "a", "n">>),
        Lit(<<"f", "e", "b">>), Lit(<<"m", "a", "r">>), Lit(<<"a", "p", "r">>), Lit(<<"m", "a", "j">>),
        Lit(<<"j", "u", "n">>), Lit(<<"j", "u", "l">>), Lit(<<"a", "u", "g">>), Lit(<<"s", "e", "p">>),
        Lit(<<"o", "k", "t">>), Lit(<<"n", "o", "v">>), Lit(<<"d", "e", "c">>)>>)>>)>>), Rep(NotIn({"\n"}),
        0, Inf), Lit(<<"s", "k", "r", "e", "v">>), In(SpaceChars), Lazy(Dot, 1, Inf), Rep(In(SpaceChars), 0,
        1), Lazy(Dot, 1, Inf), Lit(<<":">>)>>), Eol>>)]

\* MAIL_LANGUAGES['sv']['disclaimers']
sv_disclaimers ==
    [list |-> <<
      Lit(<<"V", "a", "r", "n", "i", "n", "g", ":">>),
      Lit(<<"O", "b", "s", "e", "r", "v", "e", "r", "a", ":">>)
    >>]

\* MAIL_LANGUAGES['sv']['signatures']
sv_signatures ==
    [list |-> <<
      Lit(<<"M", "e", "d", " ", "v", "u00e4", "n", "l", "i", "g", "a", " ", "h", "u00e4", "l", "s", "n", "i",
        "n", "g", "a", "r">>),
      Lit(<<"V", "u00e4", "n", "l", "i", "g", "a", " ", "h", "u00e4", "l", "s", "n", "i", "n", "g", "a",
        "r">>),
      Lit(<<"H", "u00e4", "l", "s", "n", "i", "n", "g", "a", "r">>),
      Lit(<<"B", "u00e4", "s", "t", "a", " ", "h", "u00e4", "l", "s", "n", "i", "n", "g", "a", "r">>),
      Lit(<<"M", "v", "h">>),
      Cat(<<Lit(<<"/">>), Rep(In(WordChars), 1, Inf)>>)
    >>]

\* MAIL_LANGUAGES['sv']['sent_from']
sv_sent_from ==
    [str |->
      Lit(<<"S", "k", "i", "c", "k", "a", "t", " ", "f", "r", "u00e5", "n", " ", "m", "i", "n">>)]

\* MAIL_LANGUAGES['sv']['from_header']
sv_from_header ==
    [str |->
      Cat(<<Rep(Cat(<<Alt(<<Bol, Lit(<<"\n">>), Cat(<<Lit(<<"\n">>), Rep(Cat(<<Lit(<<">">>),
        Rep(Lit(<<" ">>), 0, 1)>>), 0, Inf)>>)>>), Rep(In({"*", " "}), 0, Inf), Alt(<<Lit(<<"F", "r",
        "u00e5", "n">>), Lit(<<"S", "k", "i", "c", "k", "a", "t">>), Lit(<<"T", "i", "l", "l">>),
        Lit(<<"u00c4", "m", "n", "e">>), Lit(<<"D", "a", "t", "u", "m">>), Lit(<<"K", "o", "p", "i",
        "a">>)>>), Lit(<<":">>), Rep(In({" ", "*"}), 0, Inf), Rep(In(SpaceChars), 0, 2), Rep(Dot, 0, Inf)>>),
        2, Inf), Rep(Cat(<<Lit(<<"\n">>), Rep(Dot, 0, Inf)>>), 0, 1)>>)]

\* MAIL_LANGUAGES['zh']['wrote_header']
zh_wrote_header ==
    [str |->
      Cat(<<Bol, Nla(Cat(<<Rep(Dot, 0, Inf), Rep(In(Digits09), 4, 4), Lit(<<"u5e74">>), Rep(In(Digits09), 1,
        2), Lit(<<"u6708">>), Rep(In(Digits09), 1, 2), Lit(<<"u65e5">>), Lazy(Dot, 0, Inf), Lit(<<"u5199",
        "u9053", "uff1a">>)>>)), Cat(<<Rep(Cat(<<Lit(<<">">>), Rep(Lit(<<" ">>), 0, 1)>>), 0, Inf),
        Rep(In(Digits09), 4, 4), Lit(<<"u5e74">>), Rep(In(Digits09), 1, 2), Lit(<<"u6708">>),
        Rep(In(Digits09), 1, 2), Lit(<<"u65e5">>), Lazy(Dot, 0, Inf), Lit(<<"u5199", "u9053", "uff1a">>)>>),
        Eol>>)]

\* MAIL_LANGUAGES['zh']['from_header']
zh_from_header ==
    [str |->
      Cat(<<Rep(Cat(<<Alt(<<Bol, Lit(<<"\n">>), Cat(<<Lit(<<"\n">>), Rep(Cat(<<Lit(<<">">>),
        Rep(Lit(<<" ">>), 0, 1)>>), 0, Inf)>>)>>), Rep(In({"*", " "}), 0, Inf), Alt(<<Lit(<<"u53d1", "u4ef6",
        "u4eba">>), Lit(<<"u53d1", "u9001", "u65f6", "u95f4">>), Lit(<<"u6536", "u4ef6", "u4eba">>),
        Lit(<<"u4e3b", "u9898">>), Lit(<<"u6284", "u9001">>), Lit(<<"u7ec4", "u7ec7">>)>>), Lit(<<":">>),
        Rep(In({" ", "*"}), 0, Inf), Rep(In(SpaceChars), 0, 2), Rep(Dot, 0, Inf)>>), 2, Inf),
        Rep(Cat(<<Lit(<<"\n">>), Rep(Dot, 0, Inf)>>), 0, 1)>>)]

\* MAIL_LANGUAGES['zh']['disclaimers']
zh_disclaimers ==
    [list |-> <<
      Lit(<<"u514d", "u8d23", "u58f0", "u660e", "uff1a">>),
      Lit(<<"u6ce8", "u610f", "uff1a">>),
      Lit(<<"u91cd", "u8981", "u4fe1", "u606f", "uff1a">>)
    >>]

\* MAIL_LANGUAGES['zh']['signatures']
zh_signatures ==
    [list |-> <<
      Lit(<<"u6b64", "u81f4", "uff0c">>),
      Lit(<<"u656c", "u793c", "uff0c">>),
      Lit(<<"u8c22", "u8c22", "uff0c">>),
      Lit(<<"u8c22", "u8c22", "u60a8", "u7684", "u5173", "u6ce8", "uff0c">>),
      Lit(<<"u795d", "u597d", "uff0c">>)
    >>]

\* MAIL_LANGUAGES['zh']['sent_from']
zh_sent_from ==
    [str |->
      Cat(<<Lit(<<"u4ece", "u6211", "u7684">>), Rep(Dot, 0, Inf), Lit(<<"u53d1", "u9001">>)>>)]

\* MAIL_LANGUAGES['david']['from_header']
david_from_header ==
    [str |->
      Cat(<<Bol, Rep(Lit(<<" ">>), 0, Inf), Rep(Cat(<<Lit(<<">">>), Rep(Lit(<<" ">>), 0, 1)>>), 0, Inf),
        Rep(Lit(<<"[">>), 0, 1), Lit(<<"O", "r", "i", "g", "i", "n", "a", "l", " ", "M", "e", "s", "s", "a",
        "g", "e", " ", "p", "r", "o", "c", "e", "s", "s", "e", "d", " ", "b", "y", " ", "d", "a", "v", "i",
        "d">>), Lazy(Dot, 1, Inf), Eol, Rep(Lit(<<"\n">>), 0, 4), Rep(Cat(<<Rep(Dot, 0, Inf),
        Rep(Lit(<<"\n">>), 0, 1)>>), 0, 2), Rep(Cat(<<Alt(<<Bol, Lit(<<"\n">>), Cat(<<Lit(<<"\n">>),
        Rep(Cat(<<Lit(<<">">>), Rep(Lit(<<" ">>), 0, 1)>>), 0, Inf)>>)>>), Rep(In({"*", " "}), 0, Inf),
        Alt(<<Lit(<<"V", "o", "n">>), Lit(<<"A", "n">>), Lit(<<"C", "c">>)>>), Rep(In(SpaceChars), 0, 2),
        Rep(Dot, 0, Inf)>>), 2, Inf)>>)]

\* The registry: language identifier -> field -> pattern(s)
MAIL_LANGUAGES ==
    <<"e", "n">> :> [wrote_header |-> en_wrote_header, from_header |-> en_from_header, disclaimers |-> en_disclaimers, signatures |-> en_signatures, sent_from |-> en_sent_from] @@
    <<"d", "e">> :> [wrote_header |-> de_wrote_header, from_header |-> de_from_header, disclaimers |-> de_disclaimers, signatures |-> de_signatures, sent_from |-> de_sent_from] @@
    <<"c", "s">> :> [wrote_header |-> cs_wrote_header, from_header |-> cs_from_header, disclaimers |-> cs_disclaimers, signatures |-> cs_signatures, sent_from |-> cs_sent_from] @@
    <<"e", "s">> :> [wrote_header |-> es_wrote_header, from_header |-> es_from_header, disclaimers |-> es_disclaimers, signatures |-> es_signatures, sent_from |-> es_sent_from] @@
    <<"f", "r">> :> [wrote_header |-> fr_wrote_header, from_header |-> fr_from_header, signatures |-> fr_signatures, sent_from |-> fr_sent_from] @@
    <<"i", "t">> :> [wrote_header |-> it_wrote_header, from_header |-> it_from_header, signatures |-> it_signatures, sent_from |-> it_sent_from] @@
    <<"j", "a">> :> [wrote_header |-> ja_wrote_header, from_header |-> ja_from_header, disclaimers |-> ja_disclaimers, signatures |-> ja_signatures, sent_from |-> ja_sent_from] @@
    <<"k", "o">> :> [wrote_header |-> ko_wrote_header, from_header |-> ko_from_header, disclaimers |-> ko_disclaimers, signatures |-> ko_signatures, sent_from |-> ko_sent_from] @@
    <<"n", "l">> :> [wrote_header |-> nl_wrote_header, from_header |-> nl_from_header, disclaimers |-> nl_disclaimers, signatures |-> nl_signatures, sent_from |-> nl_sent_from] @@
    <<"p", "l">> :> [wrote_header |-> pl_wrote_header, from_header |-> pl_from_header, disclaimers |-> pl_disclaimers, signatures |-> pl_signatures, sent_from |-> pl_sent_from] @@
    <<"s", "v">> :> [wrote_header |-> sv_wrote_header, disclaimers |-> sv_disclaimers, signatures |-> sv_signatures, sent_from |-> sv_sent_from, from_header |-> sv_from_header] @@
    <<"z", "h">> :> [wrote_header |-> zh_wrote_header, from_header |-> zh_from_header, disclaimers |-> zh_disclaimers, signatures |-> zh_signatures, sent_from |-> zh_sent_from] @@
    <<"d", "a", "v", "i", "d">> :> [from_header |-> david_from_header]

-----------------------------------------------------------------------------
(* parser.py: the matchers                                                 *)

InSeq(x, s) == \E i \in 1..Len(s) : s[i] = x

\* flat_list: a list of alternatives becomes one alternation
flat_list(x) == IF "list" \in DOMAIN x THEN JoinAlt(x.list) ELSE x.str

\* the loop of _get_language_regex_patterns over the languages
RECURSIVE LanguagePatterns(_, _, _)
LanguagePatterns(languages, regex_key, registry) ==
    IF languages = <<>> THEN <<>>
    ELSE LET lang == Head(languages)
         IN  (IF lang \in DOMAIN registry /\ regex_key \in DOMAIN registry[lang]
              THEN <<flat_list(registry[lang][regex_key])>> ELSE <<>>)
             \o LanguagePatterns(Tail(languages), regex_key, registry)

\* a fallback that does not look at the patterns found so far
FallbackAlways(patterns, languages, regex_key, default_language, registry) ==
    IF ~InSeq(default_language, languages)
       /\ default_language \in DOMAIN registry /\ regex_key \in DOMAIN registry[default_language]
    THEN Append(patterns, flat_list(registry[default_language][regex_key]))
    ELSE patterns

\* the fallback of _get_language_regex_patterns to the default language
Fallback(patterns, languages, regex_key, default_language, registry) ==
    IF patterns = <<>> /\ ~InSeq(default_language, languages)
       /\ default_language \in DOMAIN registry /\ regex_key \in DOMAIN registry[default_language]
    THEN <<flat_list(registry[default_language][regex_key])>>
    ELSE patterns

\* the body of _get_language_regex_patterns over the registry it reads
ResolvePatterns(languages, regex_key, default_language, registry) ==
    SelectSeq(Fallback(LanguagePatterns(languages, regex_key, registry), languages, regex_key,
                       default_language, registry),
              LAMBDA p : p # Empty)

\* _get_language_regex_patterns(languages, regex_key, default_language)
get_language_regex_patterns(languages, regex_key, default_language) ==
    ResolvePatterns(languages, regex_key, default_language, MAIL_LANGUAGES)

\* str.replace(' ', SINGLE_SPACE_VARIATIONS) on the text of a pattern.  Inside a character class
\* the inserted '[...]' closes the class early: '[\* ]*' becomes the class '[\*[ \u200b\xA0\t]'
\* followed by ']*'.
SpacedClass(n) == [n EXCEPT !.s = n.s \cup {"["} \cup SINGLE_SPACE_VARIATIONS.s]
RECURSIVE ReplaceSpaces(_)
ReplaceSpaces(n) ==
    CASE n.t = "lit" ->
           LET starts == {j \in 1..Len(n.s) : n.s[j] = " " \/ j = 1 \/ n.s[j - 1] = " "}
               piece(j) == IF n.s[j] = " " THEN SINGLE_SPACE_VARIATIONS
                           ELSE Lit(SubSeq(n.s, j, Min({e \in j..Len(n.s) : e = Len(n.s) \/ n.s[e + 1] = " "})))
               nth(x) == CHOOSE j \in starts : Cardinality({e \in starts : e <= j}) = x
           IN  Cat(Strict([x \in 1..Cardinality(starts) |-> piece(nth(x))]))
      [] n.t = "in" ->
           IF " " \in n.s THEN Cat(<<SpacedClass(n), Lit(<<"]">>)>>) ELSE n
      [] n.t = "rep" ->
           IF n.r.t = "in" /\ " " \in n.r.s
           THEN Cat(<<SpacedClass(n.r), [n EXCEPT !.r = Lit(<<"]">>)]>>)
           ELSE [n EXCEPT !.r = ReplaceSpaces(n.r)]
      [] n.t \in {"cat", "alt"} -> [n EXCEPT !.rs = Strict([j \in 1..Len(n.rs) |-> ReplaceSpaces(n.rs[j])])]
      [] n.t = "nla" -> [n EXCEPT !.r = ReplaceSpaces(n.r)]
      [] OTHER -> n

\* ALLOW_ANY_EXTENSION = r'[a-zA-Z0-9\u00C0-\u017F:;.,?!<>()@&/\'\"\“\” \u200b\xA0\t\-]*'
ALLOW_ANY_EXTENSION ==
    Rep(In(LowerAZ \cup UpperAZ \cup Digits09 \cup LatinExt \cup {":", ";", ".", ",", "?", "!", "<", ">",
      "(", ")", "@", "&", "/", "'", "\"", "u201c", "u201d", " ", "u200b", "u00a0", "\t", "-"}), 0, Inf)

\* a quantified pattern followed by '?': the lazy repetition
LazyOf(r) == [r EXCEPT !.greedy = FALSE]

\* get_disclaimers_regex(languages, default_language), without its cache
compile_disclaimers_regex(languages, default_language) ==
    LET disclaimers == get_language_regex_patterns(languages, "disclaimers", default_language)
        disclaimers_pattern == ReplaceSpaces(JoinAlt(disclaimers))
    IN  Cat(<<SENTENCE_START, disclaimers_pattern,
              Rep(Cat(<<OPTIONAL_LINEBREAK, LazyOf(ALLOW_ANY_EXTENSION), Lit(<<"m", "a", "i", "l">>),
                        ALLOW_ANY_EXTENSION>>), 1, 2)>>)

\* '(?:^[\s*>-]*)(h)': a language header may follow quote markers, asterisks, hyphens, whitespace
PrefixedHeader(h) == Cat(<<Cat(<<Bol, Rep(In(SpaceChars \cup {"*", ">", "-"}), 0, Inf)>>), h>>)

\* [f'(?:^[\\s*>-]*)({h})' for h in lang_headers]
PrefixedHeaders(lang_headers) == Strict([j \in 1..Len(lang_headers) |-> PrefixedHeader(lang_headers[j])])

\* get_header_regex(languages, default_language), without its cache
compile_header_regex(languages, default_language) ==
    JoinAlt(PrefixedHeaders(get_language_regex_patterns(languages, "wrote_header", default_language)
                            \o get_language_regex_patterns(languages, "from_header", default_language))
            \o <<GENERIC_MAIL_SEPARATOR>>)

\* get_signature_regex(languages, default_language), without its cache
compile_signature_regex(languages, default_language) ==
    LET sent_from == JoinAlt(get_language_regex_patterns(languages, "sent_from", default_language))
        signatures == JoinAlt(get_language_regex_patterns(languages, "signatures", default_language))
    IN  Cat(<<Alt(<<DEFAULT_SIGNATURE_REGEX,
                    Cat(<<Rep(In(SpaceChars), 0, Inf), Bol, QUOTED_MATCH_INCLUDE, sent_from,
                          Rep(Lit(<<" ">>), 0, 1),
                          Alt(<<Rep(In(WordChars \cup {".", "<", ">", ":", "/", " "}), 1, Inf),
                                Rep(Cat(<<Rep(In(WordChars), 1, Inf), Lit(<<" ">>)>>), 1, 3)>>),
                          Eol>>),
                    Cat(<<Nlb(Bos), Bol, QUOTED_MATCH_INCLUDE, signatures>>)>>),
              Rep(Alt(<<Dot, In(SpaceChars)>>), 0, Inf)>>)

-----------------------------------------------------------------------------
(* parser.py: EmailReply                                                   *)

\* EmailReply(...) and its __post_init__: every part is stripped
EmailReply(content, headers, signatures, disclaimers) ==
    [content |-> Strip(content),
     headers |-> Strip(headers),
     signatures |-> Strip(signatures),
     disclaimers |-> Strict([j \in 1..Len(disclaimers) |-> Strip(disclaimers[j])])]

\* the loop of EmailReply.body over the disclaimers
RECURSIVE RemoveDisclaimers(_, _)
RemoveDisclaimers(body, disclaimers) ==
    IF disclaimers = <<>> THEN body
    ELSE RemoveDisclaimers(Replace(body, Head(disclaimers), <<>>), Tail(disclaimers))

\* EmailReply.body
body(reply) ==
    LET b1 == RemoveDisclaimers(reply.content, reply.disclaimers)
        b2 == IF reply.signatures # <<>> THEN Replace(b1, reply.signatures, <<>>) ELSE b1
    IN  Strip(Replace(b2, reply.headers, <<>>))

\* EmailReply.full_body
full_body(reply) == Strip(Replace(reply.content, reply.headers, <<>>))

-----------------------------------------------------------------------------
(* parser.py: EmailMessage                                                 *)

\* re.sub(f'([^\n]){OUTLOOK_MAIL_SEPARATOR}', '\\1\n', text, re.MULTILINE): the fourth positional
\* argument of re.sub is count, so at most re.MULTILINE = 8 matches are replaced, each by its
\* first character and a newline
SUB_COUNT == 8
SeparatorAfterChar == Cat(<<NotIn({"\n"}), OUTLOOK_MAIL_SEPARATOR>>)
RECURSIVE SubSeparators(_, _, _, _)
SubSeparators(text, ends, i, count) ==
    LET m == IF count = 0 THEN NoMatch ELSE FirstFrom(ends, i)
    IN  IF m = NoMatch THEN Slice(text, i, Len(text) + 1)
        ELSE Slice(text, i, m[1]) \o <<text[m[1]], "\n">> \o SubSeparators(text, ends, m[2], count - 1)

\* '\n'.join([line.strip() for line in lines])
StripLines(lines) == JoinLines(Strict([j \in 1..Len(lines) |-> Strip(lines[j])]))

\* the re.sub call of _normalize_text
SubAll(text) == SubSeparators(text, Ends(SeparatorAfterChar, text), 1, SUB_COUNT)

\* EmailMessage._normalize_text
normalize_text(text) == SubAll(StripLines(SplitLines(Replace(text, <<"\r", "\n">>, <<"\n">>))))

\* signatures_match.group() if signatures_match else ''
Group(text, signatures_match) ==
    IF signatures_match # NoMatch THEN Slice(text, signatures_match[1], signatures_match[2]) ELSE <<>>

\* EmailMessage._process_signatures_disclaimers with the two matchers it fetched
process_signatures_disclaimers(text, disclaimers_regex, signature_regex) ==
    [disclaimers |-> FindAll(disclaimers_regex, text),
     signatures |-> Group(text, Search(signature_regex, text))]

\* a reply whose content starts after the header that opened its slice
ReplyAfterHeader(content_slice, previous_header, found) ==
    EmailReply(SubSeq(content_slice, Len(previous_header) + 1, Len(content_slice)), previous_header,
               found.signatures, found.disclaimers)

\* a reply that loses the header before it
ReplyWithoutHeader(content_slice, previous_header, found) ==
    EmailReply(content_slice, <<>>, found.signatures, found.disclaimers)

\* the EmailReply of a slice and of what _process_signatures_disclaimers found in it
Reply(content_slice, previous_header, found) ==
    EmailReply(content_slice, previous_header, found.signatures, found.disclaimers)

\* the reply made of a slice of the text
ReplyOf(content_slice, previous_header, regex) ==
    Reply(content_slice, previous_header,
          process_signatures_disclaimers(content_slice, regex.disclaimers, regex.signature))

\* a part that holds its header alone is dropped like a blank one
NextReplyWithText(replies, reply) ==
    IF reply.content # <<>> /\ reply.content # reply.headers THEN Append(replies, reply) ELSE replies

\* every part is appended, a blank one too
NextReplyAlways(replies, reply) == Append(replies, reply)

\* a part that a header ends: appended when it has content
NextReply(replies, reply) == IF reply.content # <<>> THEN Append(replies, reply) ELSE replies

\* the part after the last header is appended whatever it holds
FinalReplyAlways(replies, reply) == Append(replies, reply)

\* the part after the last header is appended only when it has content
FinalReplyWithContent(replies, reply) == IF reply.content # <<>> THEN Append(replies, reply) ELSE replies

\* the part after the last header: appended when it has content or when it is the only reply
FinalReply(replies, reply) ==
    IF reply.content # <<>> \/ replies = <<>> THEN Append(replies, reply) ELSE replies

\* the loop of EmailMessage.read over the header matches, and the final part after the last one
RECURSIVE ReadLoop(_, _, _, _, _, _)
ReadLoop(text, matches, current_position, previous_header, replies, regex) ==
    IF matches # <<>>
    THEN LET position == Head(matches)[1]
             header == Slice(text, Head(matches)[1], Head(matches)[2])
         IN  ReadLoop(text, Tail(matches), position, header,
                      NextReply(replies, ReplyOf(Slice(text, current_position, position),
                                                 previous_header, regex)),
                      regex)
    ELSE FinalReply(replies, ReplyOf(Slice(text, current_position, Len(text) + 1), previous_header, regex))

\* EmailMessage.read with the three matchers it fetched: the replies after the call
read_replies(text, replies, regex) ==
    ReadLoop(text, FindIter(regex.header, text), 1, <<>>, replies, regex)

\* the three matchers of a language tuple
Matchers(languages_tuple, default_language) ==
    [header |-> compile_header_regex(languages_tuple, default_language),
     signature |-> compile_signature_regex(languages_tuple, default_language),
     disclaimers |-> compile_disclaimers_regex(languages_tuple, default_language)]

-----------------------------------------------------------------------------
(* functools.lru_cache as parser.py uses it                                *)

\* @lru_cache(maxsize=128)
maxsize == 128

\* a lookup that compares the default language of the key only
CacheHitByDefault(cache, key) == {j \in 1..Len(cache) : cache[j].key[2] = key[2]}

\* the positions of the cache that hold the key (languages, default_language)
CacheHit(cache, key) == {j \in 1..Len(cache) : cache[j].key = key}

\* a hit makes the entry the most recently used one
MoveToEnd(cache, j) == SubSeq(cache, 1, j - 1) \o SubSeq(cache, j + 1, Len(cache)) \o <<cache[j]>>

\* a wrapper that stores the result without looking for the key again
StoreUnchecked(cache, key, result) ==
    Append(IF Len(cache) >= maxsize THEN Tail(cache) ELSE cache, [key |-> key, result |-> result])

\* the wrapper after the function's return: the result is stored unless the key has been stored
\* meanwhile, and a full cache gives up its least recently used entry
Store(cache, key, result) ==
    IF CacheHit(cache, key) # {} THEN cache
    ELSE Append(IF Len(cache) >= maxsize THEN Tail(cache) ELSE cache, [key |-> key, result |-> result])

\* what a call adds to the wrapper's count of misses
Missed(cache, key) == IF CacheHit(cache, key) = {} THEN 1 ELSE 0

\* one call of a cached function from a single thread: the cache after it and the result
lru_cache(cache, key, built) ==
    LET hit == CacheHit(cache, key)
    IN  IF hit # {}
        THEN LET j == CHOOSE x \in hit : TRUE
             IN  [cache |-> MoveToEnd(cache, j), result |-> cache[j].result]
        ELSE [cache |-> Store(cache, key, built), result |-> built]

-----------------------------------------------------------------------------
(* parser.py: the objects                                                  *)

NoParser == [languages |-> <<>>, default_language |-> <<>>]
NoMessage ==
    [text |-> <<>>, languages |-> <<>>, languages_tuple |-> <<>>, include_english |-> FALSE,
     default_language |-> <<>>, replies |-> <<>>]

\* the languages of the registry
Registered == DOMAIN MAIL_LANGUAGES

\* a parser that looks the identifiers up as the caller wrote them
EmailReplyParserAsWritten(languages, default_language) ==
    [languages |-> IF SelectSeq(languages, LAMBDA l : l \in Registered) = <<>> THEN <<default_language>>
                   ELSE SelectSeq(languages, LAMBDA l : l \in Registered),
     default_language |-> default_language]

\* EmailReplyParser(languages, default_language) and its __post_init__
EmailReplyParser(languages, default_language) ==
    LET lowered == Strict([j \in 1..Len(languages) |-> Strip(Lower(languages[j]))])
        known == SelectSeq(lowered, LAMBDA l : l \in Registered)
    IN  [languages |-> IF known = <<>> THEN <<default_language>> ELSE known,
         default_language |-> default_language]

\* 'en', the language EmailMessage.__post_init__ adds
English == <<"e", "n">>

\* a message that leaves the list of languages as it got it
WithoutEnglish(languages) == languages

\* the list self.languages after EmailMessage.__post_init__ looked at it
WithEnglish(languages) == IF ~InSeq(English, languages) THEN Append(languages, English) ELSE languages

\* EmailMessage(text=text, languages=languages) and its __post_init__
EmailMessage(text, languages) ==
    [text |-> normalize_text(text),
     languages |-> WithEnglish(languages),
     languages_tuple |-> Sorted(WithEnglish(languages)),
     include_english |-> TRUE,
     default_language |-> MAIL_LANGUAGE_DEFAULT,
     replies |-> <<>>]

\* EmailMessage.read: the message and the three caches after the call.  Every fragment fetches
\* the disclaimer and the signature matcher again, under the same key: after the first fetch
\* the entry is the most recently used one and the later fetches change nothing.
read(m, headers, signatures, disclaimers, counts) ==
    CHOOSE after \in
        {[returned |-> [m EXCEPT !.replies = read_replies(m.text, m.replies,
                           [header |-> h.result, signature |-> s.result, disclaimers |-> d.result])],
          headers |-> h.cache, signatures |-> s.cache, disclaimers |-> d.cache,
          misses |-> [header |-> counts.header + Missed(headers, <<m.languages_tuple, m.default_language>>),
                      signature |-> counts.signature + Missed(signatures, <<m.languages_tuple, m.default_language>>),
                      disclaimers |-> counts.disclaimers + Missed(disclaimers, <<m.languages_tuple, m.default_language>>)]] :
            h \in {lru_cache(headers, <<m.languages_tuple, m.default_language>>,
                             compile_header_regex(m.languages_tuple, m.default_language))},
            d \in {lru_cache(disclaimers, <<m.languages_tuple, m.default_language>>,
                             compile_disclaimers_regex(m.languages_tuple, m.default_language))},
            s \in {lru_cache(signatures, <<m.languages_tuple, m.default_language>>,
                             compile_signature_regex(m.languages_tuple, m.default_language))}} : TRUE

-----------------------------------------------------------------------------
(* The calls of one thread                                                 *)

NoCall == [languages |-> <<>>, regex_key |-> "", default_language |-> <<>>, patterns |-> <<>>, returned |-> FALSE]
NoThreads == <<>>
NoMisses == [header |-> 0, signature |-> 0, disclaimers |-> 0]

\* EmailReplyParser(**config[i])
Construct ==
    \E i \in 1..Len(config) :
        /\ parser' = EmailReplyParser(config[i].languages, config[i].default_language)
        /\ message' = NoMessage
        /\ reads' = 0
        /\ UNCHANGED <<config, mail, header_cache, signature_cache, disclaimers_cache, misses, call, threads>>

\* parser.read(mail): the message shares the parser's list of languages
Read ==
    /\ parser # NoParser
    /\ \E created \in {EmailMessage(mail, parser.languages)} :
         \E after \in {read(created, header_cache, signature_cache, disclaimers_cache, misses)} :
            /\ message' = after.returned
            /\ parser' = [parser EXCEPT !.languages = created.languages]
            /\ header_cache' = after.headers
            /\ signature_cache' = after.signatures
            /\ disclaimers_cache' = after.disclaimers
            /\ misses' = after.misses
    /\ reads' = 1
    /\ UNCHANGED <<config, mail, call, threads>>

\* message.read() on the message a read has returned
ReadAgain ==
    /\ message # NoMessage
    /\ reads < MaxReads
    /\ \E after \in {read(message, header_cache, signature_cache, disclaimers_cache, misses)} :
            /\ message' = after.returned
            /\ header_cache' = after.headers
            /\ signature_cache' = after.signatures
            /\ disclaimers_cache' = after.disclaimers
            /\ misses' = after.misses
    /\ reads' = reads + 1
    /\ UNCHANGED <<config, mail, parser, call, threads>>

Next == Construct \/ Read \/ ReadAgain

-----------------------------------------------------------------------------
(* Mails of a few lines, read by the default parser                        *)

Lines ==
    {<<>>,
     <<"a">>,
     <<"a", "-", "a">>,
     <<"-", "a">>,
     <<"O", "n", " ", "a", "a", " ", "w", "r", "o", "t", "e", ":">>,
     <<"W", "a", "r", "n", "i", "n", "g", ":", "m", "a", "i", "l">>}

Texts == {JoinLines(ls) : ls \in UNION {[1..k -> Lines] : k \in 1..MaxLines}}

DefaultConfig == [languages |-> <<>>, default_language |-> MAIL_LANGUAGE_DEFAULT]

Init ==
    /\ config = <<DefaultConfig>>
    /\ mail \in Texts
    /\ parser = NoParser
    /\ message = NoMessage
    /\ reads = 0
    /\ header_cache = <<>>
    /\ signature_cache = <<>>
    /\ disclaimers_cache = <<>>
    /\ misses = NoMisses
    /\ call = NoCall
    /\ threads = NoThreads

Spec == Init /\ [][Next]_vars


-----------------------------------------------------------------------------
(* The chain of replies of one parse                                       *)

\* the strings of a list, one after the other
RECURSIVE Concat(_)
Concat(ss) == IF ss = <<>> THEN <<>> ELSE Head(ss) \o Concat(Tail(ss))

\* the contents of the replies, in order
Contents(replies) == Strict([k \in 1..Len(replies) |-> replies[k].content])

\* a is a subsequence of b
RECURSIVE SubseqFrom(_, _, _, _)
SubseqFrom(a, i, b, j) ==
    IF i > Len(a) THEN TRUE
    ELSE IF j > Len(b) THEN FALSE
    ELSE IF a[i] = b[j] THEN SubseqFrom(a, i + 1, b, j + 1)
    ELSE SubseqFrom(a, i, b, j + 1)
IsSubsequence(a, b) == SubseqFrom(a, 1, b, 1)

\* old occurs in s
Occurs(old, s) == \E i \in 1..(Len(s) + 1) : StartsAt(s, old, i)

\* the header matches a parse of the message finds in its text
HeaderMatches(m) == FindIter(compile_header_regex(m.languages_tuple, m.default_language), m.text)

\* the scan windows of a text that header matches cut: window 0 runs from the start of the text
\* to the start of the first match, window w from the start of match w to the start of the next
\* match, the last one to the end of the text
WindowStart(ms, w) == IF w = 0 THEN 1 ELSE ms[w][1]
WindowEnd(text, ms, w) == IF w = Len(ms) THEN Len(text) + 1 ELSE ms[w + 1][1]
Window(text, ms, w) == Slice(text, WindowStart(ms, w), WindowEnd(text, ms, w))

\* the windows that are not blank, in order; the last window alone when all are blank
RECURSIVE WindowsFrom(_, _, _)
WindowsFrom(text, ms, w) ==
    IF w > Len(ms) THEN <<>>
    ELSE (IF Strip(Window(text, ms, w)) # <<>> THEN <<w>> ELSE <<>>) \o WindowsFrom(text, ms, w + 1)
KeptOf(ms, kept) == IF kept = <<>> THEN <<Len(ms)>> ELSE kept
Kept(text, ms) == KeptOf(ms, WindowsFrom(text, ms, 0))

\* the text of header match w
MatchText(text, ms, w) == Slice(text, ms[w][1], ms[w][2])

\* C1 as the specification states it: after EmailReplyParser.read the contents of the replies,
\* one after the other, are the normalized text, character for character
C1_PartitionExact == reads = 1 => Concat(Contents(message.replies)) = message.text

\* the contents of the replies are the trimmed windows w of ks
TrimmedWindows(replies, text, ms, ks) ==
    /\ Len(replies) = Len(ks)
    /\ \A k \in 1..Len(ks) : replies[k].content = Strip(Window(text, ms, ks[k]))

\* C1: after EmailReplyParser.read the contents of the replies are, in order, the scan windows of
\* the normalized text with the whitespace at both ends of each window trimmed and the blank
\* windows left out (a text of blank windows only gives one reply of empty content); their
\* concatenation is a subsequence of the normalized text
C1_PartitionTrimmed ==
    reads = 1 =>
        /\ \E ms \in {HeaderMatches(message)} :
              TrimmedWindows(message.replies, message.text, ms, Kept(message.text, ms))
        /\ IsSubsequence(Concat(Contents(message.replies)), message.text)

\* a parse of two replies or more whose contents do not add up to the normalized text
C1_Witness ==
    /\ reads = 1
    /\ Len(message.replies) >= 2
    /\ Concat(Contents(message.replies)) # message.text

\* the headers of the replies when reply 0 has none and every later reply has the text of the
\* match that closed the window of the reply before it
ClosingHeaders(replies, text, ms, ks) ==
    /\ Len(replies) = Len(ks)
    /\ replies[1].headers = <<>>
    /\ \A k \in 2..Len(ks) :
          /\ ks[k - 1] < Len(ms)
          /\ replies[k].headers = MatchText(text, ms, ks[k - 1] + 1)

\* C2 as the specification states it: reply[0].headers is empty, and reply[i].headers for i > 0 is
\* the text of the header match that closed the window of reply[i-1]
C2_HeadersExact ==
    reads = 1 =>
        \E ms \in {HeaderMatches(message)} :
            ClosingHeaders(message.replies, message.text, ms, Kept(message.text, ms))

\* the headers of the replies, trimmed, with reply 0 introduced by the first match when the text
\* before that match is blank
TrimmedHeaders(replies, text, ms, ks) ==
    /\ Len(replies) = Len(ks)
    /\ replies[1].headers = IF ks[1] = 0 THEN <<>> ELSE Strip(MatchText(text, ms, ks[1]))
    /\ \A k \in 2..Len(ks) :
          /\ ks[k - 1] < Len(ms)
          /\ replies[k].headers = Strip(MatchText(text, ms, ks[k - 1] + 1))

\* C2: reply[i].headers for i > 0 is the whitespace-trimmed text of the header match that closed
\* the window of reply[i-1]; reply[0].headers is empty when there is text before the first header
\* match, and is the trimmed text of the first header match when the text before it is blank
C2_HeadersTrimmed ==
    reads = 1 =>
        \E ms \in {HeaderMatches(message)} :
            TrimmedHeaders(message.replies, message.text, ms, Kept(message.text, ms))

\* a parse whose first reply is introduced by a header and whose second reply has one too
C2_Witness ==
    /\ reads = 1
    /\ Len(message.replies) >= 2
    /\ message.replies[1].headers # <<>>
    /\ message.replies[2].headers # <<>>

\* the reply of the empty mail
EmptyReply == [content |-> <<>>, headers |-> <<>>, signatures |-> <<>>, disclaimers |-> <<>>]

\* C3: the parse of the empty string gives exactly one reply, whose content, headers and
\* signatures are empty and whose list of disclaimers is empty
C3_EmptyInput == (mail = <<>> /\ reads = 1) => message.replies = <<EmptyReply>>

\* the empty mail has been parsed
C3_Witness == mail = <<>> /\ reads = 1 /\ Len(message.replies) = 1

-----------------------------------------------------------------------------
(* The body of a reply                                                     *)

\* the strings of S with one occurrence of old taken out of each (a string that has no
\* occurrence stays as it is)
WithoutAt(s, old, i) == SubSeq(s, 1, i - 1) \o SubSeq(s, i + Len(old), Len(s))
RemoveOne(S, old) ==
    UNION {IF old = <<>> \/ ~Occurs(old, s) THEN {s}
           ELSE {WithoutAt(s, old, i) : i \in {j \in 1..Len(s) : StartsAt(s, old, j)}} : s \in S}

RECURSIVE RemoveEachOnce(_, _)
RemoveEachOnce(S, olds) ==
    IF olds = <<>> THEN S ELSE RemoveEachOnce(RemoveOne(S, Head(olds)), Tail(olds))

\* the bodies that the removal of single spans can give: the disclaimers, then the signature,
\* then the header, then the trim
SingleSpanBodies(reply) ==
    {Strip(b) : b \in RemoveOne(RemoveOne(RemoveEachOnce({reply.content}, reply.disclaimers),
                                          reply.signatures),
                                reply.headers)}

\* C9: the body of every reply is its content with each disclaimer span, then the signature
\* span, then the header text taken out, one occurrence per captured span, and then trimmed;
\* the body is a subsequence of the content
C9_BodySingleSpans ==
    reads = 1 =>
        \A k \in 1..Len(message.replies) :
            /\ body(message.replies[k]) \in SingleSpanBodies(message.replies[k])
            /\ IsSubsequence(body(message.replies[k]), message.replies[k].content)

\* the content of a reply before its signature: the signature runs from its marker line to the
\* end of the content
BeforeSignature(reply) == SubSeq(reply.content, 1, Len(reply.content) - Len(reply.signatures))

\* C10: nothing of what a reply captured as signature or as disclaimer is left in its body: with
\* a signature the body is made of the content before the marker line only, and no disclaimer
\* of the list occurs in the body
C10_NothingCapturedInBody ==
    reads = 1 =>
        \A k \in 1..Len(message.replies) :
            /\ message.replies[k].signatures # <<>> =>
                  IsSubsequence(body(message.replies[k]), BeforeSignature(message.replies[k]))
            /\ \A j \in 1..Len(message.replies[k].disclaimers) :
                  message.replies[k].disclaimers[j] # <<>> =>
                      ~Occurs(message.replies[k].disclaimers[j], body(message.replies[k]))

\* a reply whose signature has taken a disclaimer in
C10_Witness ==
    /\ reads = 1
    /\ \E k \in 1..Len(message.replies) :
          /\ message.replies[k].signatures # <<>>
          /\ \E j \in 1..Len(message.replies[k].disclaimers) :
                Occurs(message.replies[k].disclaimers[j], message.replies[k].signatures)

\* a reply whose signature text occurs a second time in its content
C9_Witness ==
    /\ reads = 1
    /\ \E k \in 1..Len(message.replies) :
          /\ message.replies[k].signatures # <<>>
          /\ Cardinality({i \in 1..Len(message.replies[k].content) :
                            StartsAt(message.replies[k].content, message.replies[k].signatures, i)}) >= 2

-----------------------------------------------------------------------------
(* Parsers of every configuration                                          *)

MaxLangs == 2        \* identifiers in a list of languages

\* identifiers as callers write them: registered ones, one in capitals with a blank after it,
\* and 'da', which the registry does not have
LangIds ==
    {<<"e", "n">>, <<"D", "E", " ">>, <<"f", "r">>, <<"d", "a">>}
Defaults == {<<"e", "n">>, <<"d", "e">>, <<"f", "r">>}

SeqsOf(S, n) == UNION {[1..k -> S] : k \in 0..n}
Configs == {[languages |-> ls, default_language |-> d] : ls \in SeqsOf(LangIds, MaxLangs), d \in Defaults}

\* mails with an English and a German header
Probes ==
    {<<"a", "\n", "O", "n", " ", "a", "a", " ", "w", "r", "o", "t", "e", ":">>,
     <<"a", "\n", "V", "o", "n", ":", " ", "a">>}

InitLang ==
    /\ config \in {<<c>> : c \in Configs}
    /\ mail \in Probes
    /\ parser = NoParser
    /\ message = NoMessage
    /\ reads = 0
    /\ header_cache = <<>>
    /\ signature_cache = <<>>
    /\ disclaimers_cache = <<>>
    /\ misses = NoMisses
    /\ call = NoCall
    /\ threads = NoThreads

SpecLang == InitLang /\ [][Next]_vars

\* the requested identifiers in lower case and trimmed, and those of them the registry has
Normalized(languages) == Strict([j \in 1..Len(languages) |-> Strip(Lower(languages[j]))])
Known(languages) == SelectSeq(Normalized(languages), LAMBDA l : l \in DOMAIN MAIL_LANGUAGES)

\* the languages of a parser that has been constructed from the request
Resolved(languages, request) ==
    /\ languages # <<>>
    /\ Known(request.languages) = <<>> => languages = <<request.default_language>>
    /\ Known(request.languages) # <<>> => languages = Known(request.languages)

\* C4: a constructed parser has the requested identifiers in lower case and trimmed, without
\* those the registry does not have; its list is never empty, and it is the default language
\* alone when the request is empty or holds unknown identifiers only
C4_LanguageResolution ==
    (parser # NoParser /\ reads = 0) => Resolved(parser.languages, config[1])

\* a parser made from an identifier in capitals and one the registry does not have
C4_Witness ==
    /\ parser # NoParser
    /\ reads = 0
    /\ config[1].languages = <<<<"D", "E", " ">>, <<"d", "a">>>>
    /\ parser.languages = <<<<"d", "e">>>>

\* the fields of the registry
Fields == {"wrote_header", "from_header", "disclaimers", "signatures", "sent_from"}

\* the fallback to the default language changes nothing for the message
NoFallback(m, registry) ==
    \A f \in Fields :
        Fallback(LanguagePatterns(m.languages_tuple, f, registry), m.languages_tuple, f,
                 m.default_language, registry)
            = LanguagePatterns(m.languages_tuple, f, registry)

\* C6 as the specification states it: the languages a parse builds its matchers from contain
\* the default language the parser was configured with, and the fallback is never taken
C6_ConfiguredDefaultActive ==
    reads >= 1 =>
        /\ InSeq(config[1].default_language, message.languages_tuple)
        /\ NoFallback(message, MAIL_LANGUAGES)

\* the configured default language is among the languages of the message exactly in these cases
DefaultActiveWhen(request, languages_tuple) ==
    InSeq(request.default_language, languages_tuple)
        <=> \/ request.default_language = MAIL_LANGUAGE_DEFAULT
            \/ Known(request.languages) = <<>>
            \/ InSeq(request.default_language, Known(request.languages))

\* C6: the languages a parse builds its matchers from always contain 'en', which is also the
\* default language the parse resolves fields with, so the fallback is never taken; the default
\* language the parser was configured with is among them only when it is 'en', when the request
\* names it, or when the request resolves to no registered language
C6_EnglishActive ==
    reads >= 1 =>
        /\ InSeq(MAIL_LANGUAGE_DEFAULT, message.languages_tuple)
        /\ message.default_language = MAIL_LANGUAGE_DEFAULT
        /\ DefaultActiveWhen(config[1], message.languages_tuple)
        /\ NoFallback(message, MAIL_LANGUAGES)

\* a parse whose languages do not contain the configured default language
C6_Witness ==
    /\ reads >= 1
    /\ config[1].default_language = <<"d", "e">>
    /\ message.languages_tuple = <<<<"e", "n">>, <<"f", "r">>>>

-----------------------------------------------------------------------------
(* Direct calls of _get_language_regex_patterns                            *)

\* languages of a call: 'ja' has an empty sent_from pattern, 'fr' has no disclaimers, 'david' has
\* a from_header only, 'xx' is not in the registry
CallLangs == {<<"e", "n">>, <<"f", "r">>, <<"j", "a">>, <<"d", "a", "v", "i", "d">>, <<"x", "x">>}
CallKeys == Fields \cup {"subject"}
Calls ==
    {[languages |-> ls, regex_key |-> k, default_language |-> d, patterns |-> <<>>, returned |-> FALSE] :
        ls \in SeqsOf(CallLangs, MaxLangs), k \in CallKeys, d \in CallLangs}

InitPatterns ==
    /\ config = <<DefaultConfig>>
    /\ mail = <<>>
    /\ parser = NoParser
    /\ message = NoMessage
    /\ reads = 0
    /\ header_cache = <<>>
    /\ signature_cache = <<>>
    /\ disclaimers_cache = <<>>
    /\ misses = NoMisses
    /\ call \in Calls
    /\ threads = NoThreads

\* _get_language_regex_patterns(languages, regex_key, default_language)
Resolve ==
    /\ ~call.returned
    /\ call' = [call EXCEPT !.patterns = get_language_regex_patterns(call.languages, call.regex_key,
                                                                     call.default_language),
                            !.returned = TRUE]
    /\ UNCHANGED <<config, mail, parser, message, reads, header_cache, signature_cache,
                   disclaimers_cache, misses, threads>>

NextPatterns == Resolve

SpecPatterns == InitPatterns /\ [][NextPatterns]_vars

\* a language of the registry that has the field, and its pattern
Defines(l, k) == l \in DOMAIN MAIL_LANGUAGES /\ k \in DOMAIN MAIL_LANGUAGES[l]
PatternOf(l, k) == flat_list(MAIL_LANGUAGES[l][k])
Defining(languages, k) == SelectSeq(languages, LAMBDA l : Defines(l, k))
PatternsOf(languages, k) == Strict([j \in 1..Len(languages) |-> PatternOf(languages[j], k)])

\* C5 as the specification states it: the patterns of every language of the call that defines
\* the field, in order; the pattern of the default language if and only if no language of the
\* call defines the field and the default language is not among them; nothing otherwise
C5_ResolveField ==
    call.returned =>
        IF Defining(call.languages, call.regex_key) # <<>>
        THEN call.patterns = PatternsOf(Defining(call.languages, call.regex_key), call.regex_key)
        ELSE IF ~InSeq(call.default_language, call.languages)
             THEN /\ Defines(call.default_language, call.regex_key)
                  /\ call.patterns = <<PatternOf(call.default_language, call.regex_key)>>
             ELSE call.patterns = <<>>

NonEmpty(patterns) == SelectSeq(patterns, LAMBDA p : p # Empty)

\* C5: the non-empty patterns of every language of the call that defines the field, in order; the
\* pattern of the default language if and only if no language of the call defines the field, the
\* default language is not among them and the registry has the field for the default language;
\* nothing otherwise
C5_ResolveFieldNonEmpty ==
    call.returned =>
        IF Defining(call.languages, call.regex_key) # <<>>
        THEN call.patterns = NonEmpty(PatternsOf(Defining(call.languages, call.regex_key), call.regex_key))
        ELSE IF ~InSeq(call.default_language, call.languages)
                /\ Defines(call.default_language, call.regex_key)
             THEN call.patterns = NonEmpty(<<PatternOf(call.default_language, call.regex_key)>>)
             ELSE call.patterns = <<>>

\* a call that the fallback answers, and one whose only pattern is empty
C5_Witness ==
    /\ call.returned
    /\ call.languages = <<<<"f", "r">>>>
    /\ call.regex_key = "disclaimers"
    /\ call.default_language = <<"e", "n">>
    /\ call.patterns # <<>>

-----------------------------------------------------------------------------
(* Parses with full caches                                                 *)

\* The caches after parses with maxsize different sets of languages: the first one with 'en'
\* alone, the others with 'en' and every non-empty choice of the languages below.  Each parse
\* was a miss of the three caches; the entry of 'en' alone is the least recently used one.
WarmLangs ==
    <<<<"c", "s">>, <<"e", "s">>, <<"i", "t">>, <<"j", "a">>, <<"k", "o">>, <<"n", "l">>, <<"p", "l">>>>
Chosen(n) == SelectSeq([i \in 1..Len(WarmLangs) |-> i], LAMBDA i : (n \div (2 ^ (i - 1))) % 2 = 1)
WarmLanguages(n) == Strict([x \in 1..Len(Chosen(n)) |-> WarmLangs[Chosen(n)[x]]])
WarmKey(n) == <<Sorted(WithEnglish(WarmLanguages(n))), MAIL_LANGUAGE_DEFAULT>>
WarmHeader(key) == [key |-> key, result |-> compile_header_regex(key[1], key[2])]
WarmSignature(key) == [key |-> key, result |-> compile_signature_regex(key[1], key[2])]
WarmDisclaimers(key) == [key |-> key, result |-> compile_disclaimers_regex(key[1], key[2])]
WarmMisses == [header |-> maxsize, signature |-> maxsize, disclaimers |-> maxsize]

\* the caller makes parsers for English and for another language, written in any order and case
EnglishConfig == [languages |-> <<>>, default_language |-> MAIL_LANGUAGE_DEFAULT]
OtherConfigs ==
    {[languages |-> <<<<"d", "e">>>>, default_language |-> MAIL_LANGUAGE_DEFAULT],
     [languages |-> <<<<"f", "r">>, <<"D", "E", " ">>>>, default_language |-> MAIL_LANGUAGE_DEFAULT],
     [languages |-> <<<<"d", "e">>, <<"f", "r">>>>, default_language |-> <<"d", "e">>]}

InitCache ==
    /\ config \in {<<EnglishConfig, c>> : c \in OtherConfigs}
    /\ mail \in Probes
    /\ parser = NoParser
    /\ message = NoMessage
    /\ reads = 0
    /\ header_cache = Strict([n \in 1..maxsize |-> WarmHeader(WarmKey(n - 1))])
    /\ signature_cache = Strict([n \in 1..maxsize |-> WarmSignature(WarmKey(n - 1))])
    /\ disclaimers_cache = Strict([n \in 1..maxsize |-> WarmDisclaimers(WarmKey(n - 1))])
    /\ misses = WarmMisses
    /\ call = NoCall
    /\ threads = NoThreads

SpecCache == InitCache /\ [][Next]_vars

\* the cache holds the key once, with the matcher a build for the key gives
Memoized(cache, key, built) ==
    \E j \in 1..Len(cache) :
        /\ cache[j].key = key
        /\ cache[j].result = built
        /\ \A i \in 1..Len(cache) : cache[i].key = key => i = j

\* the message has been parsed with the matchers a build for its key gives
ParsedWith(m, n, key) ==
    n = 1 => m.replies = read_replies(m.text, <<>>, Matchers(key[1], key[2]))

\* C7: after every parse each of the three caches holds the key of the parse (the sorted
\* languages and the default language) exactly once, with the matcher that a build for this key
\* gives, and the replies of the parse are those that freshly built matchers give; this is so
\* when the cache served the matcher and when it was built again after its entry had been
\* evicted
C7_CacheDeterminism ==
    reads >= 1 =>
        \E key \in {<<message.languages_tuple, message.default_language>>} :
            /\ Memoized(header_cache, key, compile_header_regex(key[1], key[2]))
            /\ Memoized(signature_cache, key, compile_signature_regex(key[1], key[2]))
            /\ Memoized(disclaimers_cache, key, compile_disclaimers_regex(key[1], key[2]))
            /\ ParsedWith(message, reads, key)
            /\ Len(header_cache) <= maxsize

\* a parse for 'en' after the entry of 'en' has been evicted by the parse for another language:
\* both parses were misses
C7_Witness ==
    /\ reads >= 1
    /\ message.languages_tuple = <<<<"e", "n">>>>
    /\ misses.header = maxsize + 2
    /\ Len(header_cache) = maxsize
    /\ header_cache[maxsize].key = <<<<<<"e", "n">>>>, MAIL_LANGUAGE_DEFAULT>>

-----------------------------------------------------------------------------
(* Parse calls in parallel on one parser                                   *)

MaxThreads == 2      \* threads that call parser.read(mail)

Threads == 1..MaxThreads

NoRegex == [header |-> Empty, signature |-> Empty, disclaimers |-> Empty]

\* a thread before its call of parser.read: its position and the locals of the call
NewThread ==
    [pc |-> "check", add_english |-> FALSE, text |-> <<>>, languages_tuple |-> <<>>,
     default_language |-> <<>>, regex |-> NoRegex, matches |-> <<>>, current_position |-> 1,
     previous_header |-> <<>>, replies |-> <<>>]

\* the key of the thread's calls of the cached functions
KeyOf(local) == <<local.languages_tuple, local.default_language>>

\* EmailMessage.__post_init__: 'en' not in self.languages, on the list of the parser
CheckEnglish(t) ==
    /\ threads[t].pc = "check"
    /\ threads' = [threads EXCEPT ![t].pc = "append",
                                  ![t].add_english = ~InSeq(English, parser.languages)]
    /\ UNCHANGED <<config, mail, parser, message, reads, header_cache, signature_cache,
                   disclaimers_cache, misses, call>>

\* EmailMessage.__post_init__: self.languages.append('en') when the check said so
AppendEnglish(t) ==
    /\ threads[t].pc = "append"
    /\ parser' = IF threads[t].add_english
                 THEN [parser EXCEPT !.languages = Append(@, English)]
                 ELSE parser
    /\ threads' = [threads EXCEPT ![t].pc = "init"]
    /\ UNCHANGED <<config, mail, message, reads, header_cache, signature_cache,
                   disclaimers_cache, misses, call>>

\* EmailMessage.__post_init__: the sorted tuple of the list as it is now, and the normalized text
SortLanguages(t) ==
    /\ threads[t].pc = "init"
    /\ threads' = [threads EXCEPT ![t].pc = "header",
                                  ![t].languages_tuple = Sorted(parser.languages),
                                  ![t].default_language = MAIL_LANGUAGE_DEFAULT,
                                  ![t].text = normalize_text(mail)]
    /\ UNCHANGED <<config, mail, parser, message, reads, header_cache, signature_cache,
                   disclaimers_cache, misses, call>>

\* EmailMessage.read with the header matcher: the header matches of the text
AfterHeader(local, regex) ==
    [local EXCEPT !.regex.header = regex, !.matches = FindIter(regex, local.text), !.pc = "disclaimers"]

\* _process_signatures_disclaimers with the disclaimers matcher
AfterDisclaimers(local, regex) == [local EXCEPT !.regex.disclaimers = regex, !.pc = "signature"]

\* the body of the loop of EmailMessage.read for the next header match, or the part after the
\* last match
Emit(local) ==
    IF local.matches # <<>>
    THEN [local EXCEPT
            !.replies = NextReply(@, ReplyOf(Slice(local.text, local.current_position, Head(local.matches)[1]),
                                             local.previous_header, local.regex)),
            !.current_position = Head(local.matches)[1],
            !.previous_header = Slice(local.text, Head(local.matches)[1], Head(local.matches)[2]),
            !.matches = Tail(@),
            !.pc = "disclaimers"]
    ELSE [local EXCEPT
            !.replies = FinalReply(@, ReplyOf(Slice(local.text, local.current_position, Len(local.text) + 1),
                                              local.previous_header, local.regex)),
            !.pc = "done"]

\* _process_signatures_disclaimers with the signature matcher, and the reply of the part
AfterSignature(local, regex) == Emit([local EXCEPT !.regex.signature = regex])

\* get_header_regex(...): the lookup of the wrapper; a miss is counted and the function is called
GetHeader(t) ==
    /\ threads[t].pc = "header"
    /\ \E hit \in {CacheHit(header_cache, KeyOf(threads[t]))} :
          IF hit # {}
          THEN \E j \in hit :
                  /\ header_cache' = MoveToEnd(header_cache, j)
                  /\ threads' = [threads EXCEPT ![t] = AfterHeader(@, header_cache[j].result)]
                  /\ misses' = misses
          ELSE /\ header_cache' = header_cache
               /\ threads' = [threads EXCEPT ![t].pc = "header_build"]
               /\ misses' = [misses EXCEPT !.header = @ + 1]
    /\ UNCHANGED <<config, mail, parser, message, reads, signature_cache, disclaimers_cache, call>>

\* get_header_regex(...): the function has returned and the wrapper stores its result
BuildHeader(t) ==
    /\ threads[t].pc = "header_build"
    /\ \E built \in {compile_header_regex(threads[t].languages_tuple, threads[t].default_language)} :
          /\ header_cache' = Store(header_cache, KeyOf(threads[t]), built)
          /\ threads' = [threads EXCEPT ![t] = AfterHeader(@, built)]
    /\ UNCHANGED <<config, mail, parser, message, reads, signature_cache, disclaimers_cache,
                   misses, call>>

\* get_disclaimers_regex(...): the lookup of the wrapper
GetDisclaimers(t) ==
    /\ threads[t].pc = "disclaimers"
    /\ \E hit \in {CacheHit(disclaimers_cache, KeyOf(threads[t]))} :
          IF hit # {}
          THEN \E j \in hit :
                  /\ disclaimers_cache' = MoveToEnd(disclaimers_cache, j)
                  /\ threads' = [threads EXCEPT ![t] = AfterDisclaimers(@, disclaimers_cache[j].result)]
                  /\ misses' = misses
          ELSE /\ disclaimers_cache' = disclaimers_cache
               /\ threads' = [threads EXCEPT ![t].pc = "disclaimers_build"]
               /\ misses' = [misses EXCEPT !.disclaimers = @ + 1]
    /\ UNCHANGED <<config, mail, parser, message, reads, header_cache, signature_cache, call>>

\* get_disclaimers_regex(...): the function has returned and the wrapper stores its result
BuildDisclaimers(t) ==
    /\ threads[t].pc = "disclaimers_build"
    /\ \E built \in {compile_disclaimers_regex(threads[t].languages_tuple, threads[t].default_language)} :
          /\ disclaimers_cache' = Store(disclaimers_cache, KeyOf(threads[t]), built)
          /\ threads' = [threads EXCEPT ![t] = AfterDisclaimers(@, built)]
    /\ UNCHANGED <<config, mail, parser, message, reads, header_cache, signature_cache,
                   misses, call>>

\* get_signature_regex(...): the lookup of the wrapper
GetSignature(t) ==
    /\ threads[t].pc = "signature"
    /\ \E hit \in {CacheHit(signature_cache, KeyOf(threads[t]))} :
          IF hit # {}
          THEN \E j \in hit :
                  /\ signature_cache' = MoveToEnd(signature_cache, j)
                  /\ threads' = [threads EXCEPT ![t] = AfterSignature(@, signature_cache[j].result)]
                  /\ misses' = misses
          ELSE /\ signature_cache' = signature_cache
               /\ threads' = [threads EXCEPT ![t].pc = "signature_build"]
               /\ misses' = [misses EXCEPT !.signature = @ + 1]
    /\ UNCHANGED <<config, mail, parser, message, reads, header_cache, disclaimers_cache, call>>

\* get_signature_regex(...): the function has returned and the wrapper stores its result
BuildSignature(t) ==
    /\ threads[t].pc = "signature_build"
    /\ \E built \in {compile_signature_regex(threads[t].languages_tuple, threads[t].default_language)} :
          /\ signature_cache' = Store(signature_cache, KeyOf(threads[t]), built)
          /\ threads' = [threads EXCEPT ![t] = AfterSignature(@, built)]
    /\ UNCHANGED <<config, mail, parser, message, reads, header_cache, disclaimers_cache,
                   misses, call>>

NextThreads ==
    \/ \E t \in Threads : CheckEnglish(t)
    \/ \E t \in Threads : AppendEnglish(t)
    \/ \E t \in Threads : SortLanguages(t)
    \/ \E t \in Threads : GetHeader(t)
    \/ \E t \in Threads : BuildHeader(t)
    \/ \E t \in Threads : GetDisclaimers(t)
    \/ \E t \in Threads : BuildDisclaimers(t)
    \/ \E t \in Threads : GetSignature(t)
    \/ \E t \in Threads : BuildSignature(t)

\* the mails the threads parse: without a header, and a signature alone
ThreadMails == {<<"a">>, <<"-", "a">>}

\* the parser the threads share: for English, or for German
ThreadConfigs == {EnglishConfig, [languages |-> <<<<"d", "e">>>>, default_language |-> MAIL_LANGUAGE_DEFAULT]}

InitThreads ==
    /\ config \in {<<c>> : c \in ThreadConfigs}
    /\ mail \in ThreadMails
    /\ parser = EmailReplyParser(config[1].languages, config[1].default_language)
    /\ message = NoMessage
    /\ reads = 0
    /\ header_cache = <<>>
    /\ signature_cache = <<>>
    /\ disclaimers_cache = <<>>
    /\ misses = NoMisses
    /\ call = NoCall
    /\ threads = [t \in Threads |-> NewThread]

SpecThreads == InitThreads /\ [][NextThreads]_vars

\* no cache holds a key twice
OncePerKey(cache) == \A i, j \in 1..Len(cache) : cache[j].key = cache[i].key => j = i

\* every entry of the three caches is what a build for its key gives
Sound ==
    /\ \A i \in 1..Len(header_cache) :
          header_cache[i].result = compile_header_regex(header_cache[i].key[1], header_cache[i].key[2])
    /\ \A i \in 1..Len(signature_cache) :
          signature_cache[i].result = compile_signature_regex(signature_cache[i].key[1], signature_cache[i].key[2])
    /\ \A i \in 1..Len(disclaimers_cache) :
          disclaimers_cache[i].result = compile_disclaimers_regex(disclaimers_cache[i].key[1], disclaimers_cache[i].key[2])

\* the thread has the matchers and the replies of a parse by one thread alone
Sequential(local) ==
    /\ local.regex = Matchers(local.languages_tuple, local.default_language)
    /\ local.replies = read_replies(local.text, <<>>, local.regex)

\* C8: under every interleaving of the parallel parses no cache holds a key twice, every entry
\* is the matcher a build for its key gives, and every parse that has ended has the matchers
\* and the replies that the parse gives when it runs alone
C8_CacheConcurrency ==
    /\ OncePerKey(header_cache)
    /\ OncePerKey(signature_cache)
    /\ OncePerKey(disclaimers_cache)
    /\ Sound
    /\ \A t \in DOMAIN threads : threads[t].pc = "done" => Sequential(threads[t])

\* two parses that both missed the three caches for the same key have ended
C8_Witness ==
    /\ threads # NoThreads
    /\ \A t \in DOMAIN threads : threads[t].pc = "done"
    /\ threads[1].languages_tuple = threads[2].languages_tuple
    /\ misses = [header |-> 2, signature |-> 2, disclaimers |-> 2]
    /\ Len(header_cache) = 1

-----------------------------------------------------------------------------
(* Mails with the separator line of a mail client                          *)

\* {32,}: the shortest run of underscores or hyphens that OUTLOOK_MAIL_SEPARATOR takes
SEPARATOR_RUN == 32

Run(c, n) == [j \in 1..n |-> c]

\* lines of a mail: text, a blank line, separators of underscores and of hyphens
SeparatorLines == {<<"a">>, <<>>, Run("_", SEPARATOR_RUN), Run("-", SEPARATOR_RUN + 1)}
SeparatorTexts == {JoinLines(ls) : ls \in UNION {[1..k -> SeparatorLines] : k \in 1..MaxLines}}

InitSeparator ==
    /\ config = <<DefaultConfig>>
    /\ mail \in SeparatorTexts
    /\ parser = NoParser
    /\ message = NoMessage
    /\ reads = 0
    /\ header_cache = <<>>
    /\ signature_cache = <<>>
    /\ disclaimers_cache = <<>>
    /\ misses = NoMisses
    /\ call = NoCall
    /\ threads = NoThreads

SpecSeparator == InitSeparator /\ [][Next]_vars

\* a line that is a run of underscores or hyphens, as long as the separator of a mail client
IsSeparatorLine(line) ==
    /\ Len(line) >= SEPARATOR_RUN
    /\ \A j \in 1..Len(line) : line[j] \in {"_", "-"}

\* the lines of a text that are not blank, trimmed, in order
TextLines(text) == SelectSeq(Strict([j \in 1..Len(SplitLines(text)) |-> Strip(SplitLines(text)[j])]),
                             LAMBDA line : line # <<>>)

\* every separator line of the lines has a blank line before it
SeparatorsAfterBlank(lines) ==
    \A k \in 2..Len(lines) : IsSeparatorLine(lines[k]) => lines[k - 1] = <<>>

\* C11: in the normalized text every separator line (a long run of underscores or hyphens) comes
\* after a blank line, and the separator lines and all other text of the mail are kept
C11_SeparatorAfterBlankLine ==
    reads >= 1 =>
        /\ SeparatorsAfterBlank(SplitLines(message.text))
        /\ TextLines(message.text) = TextLines(mail)

\* a mail with a separator line right after a line of text has been parsed
C11_Witness ==
    /\ reads >= 1
    /\ \E k \in 2..Len(SplitLines(mail)) :
          /\ IsSeparatorLine(SplitLines(mail)[k])
          /\ SplitLines(mail)[k - 1] # <<>>

-----------------------------------------------------------------------------
(* Mails with hyphen lists                                                 *)

\* lines of a mail: text, an item of a hyphen list, the two-hyphen marker, a blank line
HyphenLines == {<<"a">>, <<"-", " ", "a">>, <<"-", "-">>, <<>>}
HyphenTexts == {JoinLines(ls) : ls \in UNION {[1..k -> HyphenLines] : k \in 1..MaxLines}}

\* what the caller wants: the default parser, with hyphen lists kept or not.  EmailReplyParser
\* takes languages and default_language; there is no argument that takes the third wish.
HyphenConfigs ==
    {[languages |-> <<>>, default_language |-> MAIL_LANGUAGE_DEFAULT, keep_hyphen_lists |-> b] :
        b \in BOOLEAN}

InitHyphen ==
    /\ config \in {<<c>> : c \in HyphenConfigs}
    /\ mail \in HyphenTexts
    /\ parser = NoParser
    /\ message = NoMessage
    /\ reads = 0
    /\ header_cache = <<>>
    /\ signature_cache = <<>>
    /\ disclaimers_cache = <<>>
    /\ misses = NoMisses
    /\ call = NoCall
    /\ threads = NoThreads

SpecHyphen == InitHyphen /\ [][Next]_vars

\* a line '- item': one hyphen, then a word character, after a blank or not
IsHyphenItem(line) ==
    \/ Len(line) >= 2 /\ line[1] = "-" /\ line[2] \in WordChars
    \/ Len(line) >= 3 /\ line[1] = "-" /\ line[2] = " " /\ line[3] \in WordChars

\* a line of two hyphens or underscores
IsMarker(line) == Len(line) = 2 /\ line[1] \in {"-", "_"} /\ line[2] \in {"-", "_"}

\* the first line of a text
FirstLine(text) == SplitLines(text)[1]

\* the content has a marker line that another line follows, a line '- item'
HasMarker(content) == \E k \in 1..(Len(SplitLines(content)) - 1) : IsMarker(SplitLines(content)[k])
HasHyphenItem(content) == \E k \in 1..Len(SplitLines(content)) : IsHyphenItem(SplitLines(content)[k])

\* C12: with hyphen lists kept, no signature starts at a line '- item' (only the two-hyphen or
\* two-underscore marker line starts the generic signature); without, the marker line and a
\* line '- item' both start a signature
C12_HyphenListMode ==
    reads = 1 =>
        \A k \in 1..Len(message.replies) :
            IF config[1].keep_hyphen_lists
            THEN message.replies[k].signatures # <<>> =>
                    ~IsHyphenItem(FirstLine(message.replies[k].signatures))
            ELSE (HasHyphenItem(message.replies[k].content) \/ HasMarker(message.replies[k].content))
                    => message.replies[k].signatures # <<>>

\* a mail with a hyphen list has been parsed for a caller who wants hyphen lists kept
C12_Witness ==
    /\ reads = 1
    /\ config[1].keep_hyphen_lists
    /\ HasHyphenItem(message.replies[1].content)

-----------------------------------------------------------------------------
(* Mails with a sent-from line                                             *)

\* (?:\w+ ){1,3}: the most words of the second way to end a sent-from line
SENT_FROM_WORDS == 3

LeadIn == <<"S", "e", "n", "t", " ", "f", "r", "o", "m", " ", "m", "y">>

\* lines of a mail: text, sent-from lines with one word and with four words after the lead-in,
\* and one that goes on as a sentence
SentFromLines ==
    {<<"a">>,
     LeadIn \o <<" ", "a">>,
     LeadIn \o <<" ", "a", " ", "b", " ", "c", " ", "d">>,
     LeadIn \o <<" ", "a", ",", " ", "b">>}
SentFromTexts == {JoinLines(ls) : ls \in UNION {[1..k -> SentFromLines] : k \in 1..MaxLines}}

InitSentFrom ==
    /\ config = <<DefaultConfig>>
    /\ mail \in SentFromTexts
    /\ parser = NoParser
    /\ message = NoMessage
    /\ reads = 0
    /\ header_cache = <<>>
    /\ signature_cache = <<>>
    /\ disclaimers_cache = <<>>
    /\ misses = NoMisses
    /\ call = NoCall
    /\ threads = NoThreads

SpecSentFrom == InitSentFrom /\ [][Next]_vars

\* a line that starts with the lead-in, and what follows the lead-in on it
IsSentFrom(line) == Len(line) >= Len(LeadIn) /\ SubSeq(line, 1, Len(LeadIn)) = LeadIn
Trail(line) == SubSeq(line, Len(LeadIn) + 1, Len(line))

\* the words of a text
Words(text) == Cardinality({j \in 1..Len(text) : text[j] # " " /\ (j = 1 \/ text[j - 1] = " ")})

\* what may follow the lead-in: word characters, blanks and . < > : /, at least one
TrailChars == WordChars \cup {".", "<", ">", ":", "/", " "}
ClosesLine(line) == Trail(line) # <<>> /\ \A j \in 1..Len(Trail(line)) : Trail(line)[j] \in TrailChars

\* the text of the lines from line k on
LinesFrom(lines, k) == JoinLines(SubSeq(lines, k, Len(lines)))

\* the signature of the reply starts at line k of its content
SignatureAt(reply, k) ==
    reply.signatures # <<>> /\ reply.signatures = LinesFrom(SplitLines(reply.content), k)

\* C13 as the specification states it: a sent-from line starts a signature only when at most
\* SENT_FROM_WORDS words follow the lead-in up to the end of the line; a reply whose sent-from
\* lines all go on as a sentence has no signature and keeps the lines in its body
C13_SentFromBoundedWords ==
    reads = 1 =>
        \A r \in 1..Len(message.replies) :
            \E lines \in {SplitLines(message.replies[r].content)} :
                /\ \A k \in 1..Len(lines) :
                      (IsSentFrom(lines[k]) /\ SignatureAt(message.replies[r], k))
                          => Words(Trail(lines[k])) \in 1..SENT_FROM_WORDS
                /\ (\A k \in 1..Len(lines) : IsSentFrom(lines[k]) => ~ClosesLine(lines[k]))
                      => /\ message.replies[r].signatures = <<>>
                         /\ body(message.replies[r]) = message.replies[r].content

\* the first line of the lines that is a sent-from line closed by its trail; 0 when there is none
FirstClosed(lines) ==
    IF \E k \in 1..Len(lines) : IsSentFrom(lines[k]) /\ ClosesLine(lines[k])
    THEN Min({k \in 1..Len(lines) : IsSentFrom(lines[k]) /\ ClosesLine(lines[k])})
    ELSE 0

\* C13: in a reply that has no other signature start, the first sent-from line whose lead-in is
\* followed up to the end of the line by one or more word characters, blanks and . < > : /
\* (any number of words) starts the signature; a sent-from line that goes on with another
\* character (the comma of 'Sent from my desk, is much easier ...') starts none: when all
\* sent-from lines do, signatures is empty and the lines stay in body
C13_SentFromClosedLine ==
    reads = 1 =>
        \A r \in 1..Len(message.replies) :
            \E lines \in {SplitLines(message.replies[r].content)} :
                IF FirstClosed(lines) # 0
                THEN SignatureAt(message.replies[r], FirstClosed(lines))
                ELSE /\ message.replies[r].signatures = <<>>
                     /\ body(message.replies[r]) = message.replies[r].content

\* a parse whose signature starts at a sent-from line with more than SENT_FROM_WORDS words
C13_Witness ==
    /\ reads = 1
    /\ \E k \in 1..Len(SplitLines(message.replies[1].content)) :
          /\ IsSentFrom(SplitLines(message.replies[1].content)[k])
          /\ Words(Trail(SplitLines(message.replies[1].content)[k])) > SENT_FROM_WORDS
          /\ SignatureAt(message.replies[1], k)

-----------------------------------------------------------------------------
(* Danish mails                                                            *)

da == <<"d", "a">>
DanishSeparator ==
    <<"-", "-", "-", "-", "-", "O", "p", "r", "i", "n", "d", "e", "l", "i", "g", " ", "m", "e", "d", "d", "e", "l", "e", "l", "s", "e", "-", "-", "-", "-", "-">>
DanishClosing == <<"K", "h", "\n", "P", "e", "t", "e", "r">>

\* a reply above a quoted mail, and a reply with a closing
DanishQuoted == <<"a", "\n">> \o DanishSeparator \o <<"\n", "b">>
DanishSigned == <<"a", "\n">> \o DanishClosing
DanishMails == {DanishQuoted, DanishSigned, <<"a">>}
DanishConfigs ==
    {[languages |-> ls, default_language |-> English] :
        ls \in SeqsOf({da, English, <<"d", "e">>}, MaxLangs)}

InitDanish ==
    /\ config \in {<<c>> : c \in DanishConfigs}
    /\ mail \in DanishMails
    /\ parser = NoParser
    /\ message = NoMessage
    /\ reads = 0
    /\ header_cache = <<>>
    /\ signature_cache = <<>>
    /\ disclaimers_cache = <<>>
    /\ misses = NoMisses
    /\ call = NoCall
    /\ threads = NoThreads

SpecDanish == InitDanish /\ [][Next]_vars

\* C14: a parser configured with 'da' keeps 'da' in its languages; its parse of a mail with the
\* Danish separator has 2 replies, and a closing 'Kh' with the name after it is in signatures
\* and not in body
C14_DanishSupported ==
    (parser # NoParser /\ InSeq(da, config[1].languages)) =>
        /\ InSeq(da, parser.languages)
        /\ (reads >= 1 /\ mail = DanishQuoted) => Len(message.replies) = 2 * reads
        /\ (reads >= 1 /\ mail = DanishSigned) =>
              /\ Occurs(DanishClosing, message.replies[1].signatures)
              /\ ~Occurs(DanishClosing, body(message.replies[1]))

\* a parser configured with 'da' alone has read the mail with the Danish separator
C14_Witness ==
    /\ reads = 1
    /\ config[1].languages = <<da>>
    /\ mail = DanishQuoted

-----------------------------------------------------------------------------
(* Which parts a parse appends                                             *)

\* the parts of the message's text that have content, by their windows
Appended(m) == WindowsFrom(m.text, HeaderMatches(m), 0)

\* the replies one read appends: one for each part with content, one empty reply when the
\* chain is empty and no part has content
EmissionRule(replies, parts, n) ==
    /\ Len(replies) >= 1
    /\ \A k \in 1..Len(replies) : replies[k].content = <<>> => Len(replies) = 1
    /\ parts = <<>> => replies[1].content = <<>>
    /\ parts # <<>> => Len(replies) = n * Len(parts)

\* C15: after any parse the chain holds at least one reply, a reply of empty content is in the
\* chain only when it is the sole reply, and every read appends one reply for each part that has
\* content and none for a part that has none
C15_EmissionRule == reads >= 1 => EmissionRule(message.replies, Appended(message), reads)

\* a parse that dropped the blank part before a header and appended the part after it
C15_Witness ==
    /\ reads = 1
    /\ Len(HeaderMatches(message)) = 1
    /\ Strip(Window(message.text, HeaderMatches(message), 0)) = <<>>
    /\ Len(message.replies) = 1
    /\ message.replies[1].content # <<>>

-----------------------------------------------------------------------------
(* Two headers with nothing between them                                   *)

\* header match w is followed by header match w + 1 with blank text at most between them
Consecutive(text, ms, w) ==
    /\ w \in 1..(Len(ms) - 1)
    /\ Strip(Slice(text, ms[w][2], ms[w + 1][1])) = <<>>

\* the windows with content that are not the window of the first of two consecutive headers
RECURSIVE WithTextFrom(_, _, _)
WithTextFrom(text, ms, w) ==
    IF w > Len(ms) THEN <<>>
    ELSE (IF Strip(Window(text, ms, w)) # <<>> /\ ~Consecutive(text, ms, w) THEN <<w>> ELSE <<>>)
             \o WithTextFrom(text, ms, w + 1)

\* the replies are the windows ks, each with the header that opened it
OpenedBy(replies, text, ms, ks) ==
    /\ Len(replies) = Len(ks)
    /\ \A k \in 1..Len(ks) :
          /\ replies[k].content = Strip(Window(text, ms, ks[k]))
          /\ replies[k].headers = IF ks[k] = 0 THEN <<>> ELSE Strip(MatchText(text, ms, ks[k]))

\* C16 as the specification states it: the part between two consecutive headers is dropped, and
\* the replies are the other parts with content, each with its header
C16_IntermediateDropped ==
    (reads = 1 /\ message.text # <<>>) =>
        \E ms \in {HeaderMatches(message)} :
            OpenedBy(message.replies, message.text, ms, KeptOf(ms, WithTextFrom(message.text, ms, 0)))

\* the reply of window w in the chain of the windows ks
ReplyOfWindow(replies, ks, w) == replies[CHOOSE k \in 1..Len(ks) : ks[k] = w]

\* C16: of two consecutive header matches with no content between them, the first opens a part
\* whose content is the text of that header alone; the part is emitted as a reply with that
\* header as its headers, and the second header is the headers of the reply after it
C16_IntermediateEmitted ==
    reads = 1 =>
        \E ms \in {HeaderMatches(message)} :
            \E ks \in {Kept(message.text, ms)} :
                \A w \in 1..(Len(ms) - 1) :
                    Consecutive(message.text, ms, w) =>
                        /\ InSeq(w, ks) /\ InSeq(w + 1, ks) /\ Len(message.replies) = Len(ks)
                        /\ ReplyOfWindow(message.replies, ks, w).content = Strip(MatchText(message.text, ms, w))
                        /\ ReplyOfWindow(message.replies, ks, w).headers = Strip(MatchText(message.text, ms, w))
                        /\ ReplyOfWindow(message.replies, ks, w + 1).headers
                               = Strip(MatchText(message.text, ms, w + 1))

\* a parse of a text, a header, a blank line and a second header
C16_Witness ==
    /\ reads = 1
    /\ Len(HeaderMatches(message)) = 2
    /\ Consecutive(message.text, HeaderMatches(message), 1)
    /\ HeaderMatches(message)[1][2] < HeaderMatches(message)[2][1]
    /\ Len(message.replies) = 3

-----------------------------------------------------------------------------
(* Mails that are a closing                                                *)

\* 'Best,' of MAIL_LANGUAGES['en']['signatures']
Closing == <<"B", "e", "s", "t", ",">>

ClosingLines == {<<>>, Closing, <<"a">>}
ClosingTexts == {JoinLines(ls) : ls \in UNION {[1..k -> ClosingLines] : k \in 1..MaxLines}}

InitClosing ==
    /\ config = <<DefaultConfig>>
    /\ mail \in ClosingTexts
    /\ parser = NoParser
    /\ message = NoMessage
    /\ reads = 0
    /\ header_cache = <<>>
    /\ signature_cache = <<>>
    /\ disclaimers_cache = <<>>
    /\ misses = NoMisses
    /\ call = NoCall
    /\ threads = NoThreads

SpecClosing == InitClosing /\ [][Next]_vars

\* the content is a closing block and nothing else: its first line is the closing, no later one
OnlyClosing(content) ==
    /\ content # <<>>
    /\ SplitLines(content)[1] = Closing
    /\ \A k \in 2..Len(SplitLines(content)) : SplitLines(content)[k] # Closing

\* C17: a reply whose content is a closing block alone, whatever blank lines are before it in
\* the mail, has no signature and has the block in its body
C17_ClosingAtStart ==
    reads = 1 =>
        \A r \in 1..Len(message.replies) :
            OnlyClosing(message.replies[r].content) =>
                /\ message.replies[r].signatures = <<>>
                /\ body(message.replies[r]) = message.replies[r].content

\* a mail of a blank line and a closing block has been parsed
C17_Witness ==
    /\ reads = 1
    /\ mail = <<"\n">> \o Closing \o <<"\n", "a">>
    /\ OnlyClosing(message.replies[1].content)

-----------------------------------------------------------------------------
(* A message that is read again                                            *)

\* the chain a read of the message builds from its text
ChainOf(m) == read_replies(m.text, <<>>, Matchers(m.languages_tuple, m.default_language))

\* C18: the chain of a message is the chain its first read built, after a second read too
C18_ChainBuiltOnce == reads >= 1 => message.replies = ChainOf(message)

\* a message has been read a second time
C18_Witness == reads = 2 /\ message.text # <<>>

-----------------------------------------------------------------------------
(* The parser after its reads                                              *)

\* C19: after any reads the parser's list of languages and its default language are those it
\* had right after its construction
C19_ParserUnchanged ==
    parser # NoParser => parser = EmailReplyParser(config[1].languages, config[1].default_language)

\* a parser constructed for German alone has read a mail
C19_Witness ==
    /\ reads >= 1
    /\ config[1].languages = <<<<"D", "E", " ">>>>

-----------------------------------------------------------------------------
(* Replies and the headers that open them                                  *)

\* the reply of every window a header match opened is in the chain, has the trimmed text of the
\* match as its headers and begins with it
OpenedWindows(replies, text, ms, ks) ==
    /\ Len(replies) = Len(ks)
    /\ \A w \in 1..Len(ms) :
          /\ InSeq(w, ks)
          /\ ReplyOfWindow(replies, ks, w).headers = Strip(MatchText(text, ms, w))
          /\ ReplyOfWindow(replies, ks, w).headers # <<>>

\* C20: in the chain of a read each reply with headers has a content that begins with the text
\* of its headers; every part a header match opened has content and is in the chain, and only
\* the part before the first header match can be dropped
C20_ContentBeginsWithHeaders ==
    /\ reads >= 1 =>
          \A r \in 1..Len(message.replies) :
              message.replies[r].headers # <<>>
                  => StartsAt(message.replies[r].content, message.replies[r].headers, 1)
    /\ reads = 1 =>
          \E ms \in {HeaderMatches(message)} :
              OpenedWindows(message.replies, message.text, ms, Kept(message.text, ms))

\* a parse that dropped the part before the first header and kept the parts of two headers
C20_Witness ==
    /\ reads = 1
    /\ Len(HeaderMatches(message)) = 2
    /\ Len(message.replies) = 2
    /\ message.replies[1].headers # <<>>
    /\ Len(message.replies[2].content) > Len(message.replies[2].headers)

-----------------------------------------------------------------------------
(* The order of the requested languages                                    *)

\* the lists that hold the identifiers of a list in another order
Reordered(languages) ==
    {Strict([j \in 1..Len(languages) |-> languages[f[j]]]) :
        f \in {g \in [1..Len(languages) -> 1..Len(languages)] :
                  \A i, j \in 1..Len(languages) : g[i] = g[j] => i = j}}

\* the message a new parser of the request makes of the text
MessageOf(languages, default_language, text) ==
    EmailMessage(text, EmailReplyParser(languages, default_language).languages)

\* the message has the key and the chain of a parse of the same text by a parser of the list
SameParse(m, languages, default_language, text) ==
    \E other \in {MessageOf(languages, default_language, text)} :
        /\ KeyOf(other) = KeyOf(m)
        /\ ChainOf(other) = m.replies

\* C21: a parse has the cache key and the reply chain of the parse of the same text with the
\* requested languages listed in any other order
C21_OrderOfLanguages ==
    reads = 1 =>
        \A ls \in Reordered(config[1].languages) :
            SameParse(message, ls, config[1].default_language, mail)

\* a parse of two replies by a parser whose request lists French before German
C21_Witness ==
    /\ reads = 1
    /\ config[1].languages = <<<<"f", "r">>, <<"D", "E", " ">>>>
    /\ message.languages_tuple = <<<<"d", "e">>, <<"e", "n">>, <<"f", "r">>>>
    /\ Len(message.replies) = 2
    /\ message.replies[2].headers # <<>>
=============================================================================
